---- MODULE Spec2Model ----
(***************************************************************************)
(* Model of the listing engine of the real-estate template                 *)
(* (assets/js/main.js): the two page scripts (home/detail and listing),    *)
(* their single data load, the filter / sort / resolve functions and the   *)
(* page state they write.                                                  *)
(*                                                                         *)
(* JavaScript values are records [k, n, s]: k is the type tag, n the       *)
(* number (0 when k is not "number"), s the text as a sequence of          *)
(* one-character strings (empty when k is not "string").                   *)
(***************************************************************************)
EXTENDS Integers, Sequences, FiniteSets, TLC

\* ------------------------------------------------------------------ bounds

\* longest snapshot the query functions are applied to
MaxLen == 3

\* longest payload the page loads
MaxSnap == 2

\* most calls in a row of a function that is called repeatedly
MaxCalls == 4

\* most events in a row on the header
MaxEvents == 5

\* ------------------------------------------------------ JavaScript values

Num(n) == [k |-> "number", n |-> n, s |-> <<>>]

Str(s) == [k |-> "string", n |-> 0, s |-> s]

Undefined == [k |-> "undefined", n |-> 0, s |-> <<>>]

Null == [k |-> "null", n |-> 0, s |-> <<>>]

NaN == [k |-> "NaN", n |-> 0, s |-> <<>>]

DigitChars == <<"0", "1", "2", "3", "4", "5", "6", "7", "8", "9">>

IsDigit(c) == \E d \in 1..10 : DigitChars[d] = c

DigitVal(c) == (CHOOSE d \in 1..10 : DigitChars[d] = c) - 1

IsSpace(c) == c = " "

\* typeof v === 'number'
TypeofNumber(v) == v.k \in {"number", "NaN"}

\* ToBoolean: the operand of !x, x || y, x && y, if (x)
Truthy(v) ==
  CASE v.k = "number" -> v.n # 0
    [] v.k = "string" -> v.s # <<>>
    [] OTHER -> FALSE

\* x || y
Or(x, y) == IF Truthy(x) THEN x ELSE y

RECURSIVE NatToString(_)
NatToString(n) ==
  IF n < 10 THEN <<DigitChars[n + 1]>>
  ELSE NatToString(n \div 10) \o <<DigitChars[(n % 10) + 1]>>

\* String(v)
String(v) ==
  CASE v.k = "number" -> IF v.n < 0 THEN <<"-">> \o NatToString(0 - v.n) ELSE NatToString(v.n)
    [] v.k = "string" -> v.s
    [] v.k = "undefined" -> <<"u", "n", "d", "e", "f", "i", "n", "e", "d">>
    [] v.k = "null" -> <<"n", "u", "l", "l">>
    [] OTHER -> <<"N", "a", "N">>

RECURSIVE TrimStart(_)
TrimStart(s) == IF s # <<>> /\ IsSpace(Head(s)) THEN TrimStart(Tail(s)) ELSE s

RECURSIVE TrimEnd(_)
TrimEnd(s) ==
  IF s # <<>> /\ IsSpace(s[Len(s)]) THEN TrimEnd(SubSeq(s, 1, Len(s) - 1)) ELSE s

\* String.prototype.trim
Trim(s) == TrimEnd(TrimStart(s))

\* the longest prefix of s made of digits
RECURSIVE DigitPrefix(_)
DigitPrefix(s) ==
  IF s # <<>> /\ IsDigit(Head(s)) THEN <<Head(s)>> \o DigitPrefix(Tail(s)) ELSE <<>>

RECURSIVE DigitsValue(_)
DigitsValue(s) ==
  IF s = <<>> THEN 0 ELSE DigitsValue(SubSeq(s, 1, Len(s) - 1)) * 10 + DigitVal(s[Len(s)])

\* parseInt(s, 10) || 0: a text without a number read as 0
ParseIntOrZero(s) ==
  LET t == TrimStart(s)
      neg == t # <<>> /\ Head(t) = "-"
      u == IF t # <<>> /\ Head(t) \in {"-", "+"} THEN Tail(t) ELSE t
      d == DigitPrefix(u)
  IN IF d = <<>> THEN Num(0)
     ELSE Num(IF neg THEN 0 - DigitsValue(d) ELSE DigitsValue(d))

\* parseInt(s, 10): leading white space skipped, an optional sign, then the
\* longest run of digits; NaN when there is no digit there
ParseInt(s) ==
  LET t == TrimStart(s)
      neg == t # <<>> /\ Head(t) = "-"
      u == IF t # <<>> /\ Head(t) \in {"-", "+"} THEN Tail(t) ELSE t
      d == DigitPrefix(u)
  IN IF d = <<>> THEN NaN
     ELSE Num(IF neg THEN 0 - DigitsValue(d) ELSE DigitsValue(d))

\* ToNumber of a string: the whole trimmed text must be a (signed) integer
\* literal; the empty text is 0
StringToNumber(s) ==
  LET t == Trim(s)
      neg == t # <<>> /\ Head(t) = "-"
      u == IF t # <<>> /\ Head(t) \in {"-", "+"} THEN Tail(t) ELSE t
  IN IF t = <<>> THEN Num(0)
     ELSE IF u # <<>> /\ DigitPrefix(u) = u
          THEN Num(IF neg THEN 0 - DigitsValue(u) ELSE DigitsValue(u))
          ELSE NaN

\* ToNumber: the operands of x - y, isNaN(x)
ToNumber(v) ==
  CASE v.k = "number" -> v
    [] v.k = "string" -> StringToNumber(v.s)
    [] v.k = "null" -> Num(0)
    [] OTHER -> NaN

\* x - y
Minus(x, y) ==
  LET a == ToNumber(x)
      b == ToNumber(y)
  IN IF a.k = "NaN" \/ b.k = "NaN" THEN NaN ELSE Num(a.n - b.n)

\* isNaN(x)
IsNaN(v) == ToNumber(v).k = "NaN"

\* x != null
NotNullish(v) == v.k \notin {"null", "undefined"}

\* x < y and x > y on numbers: false when either is NaN
NumLt(x, y) == x.k = "number" /\ y.k = "number" /\ x.n < y.n

NumGt(x, y) == x.k = "number" /\ y.k = "number" /\ x.n > y.n

\* the characters of the model's texts, in UTF-16 code unit order
Alphabet ==
  <<" ", "+", "-", "0", "1", "2", "3", "4", "5", "6", "7", "8", "9", ":",
    "A", "M", "R", "T", "V", "a", "b", "c", "d", "e", "f", "i", "l", "m", "n", "o",
    "p", "r", "t", "u", "v">>

\* the rank of a character in code unit order
CharCode(c) == CHOOSE i \in 1..Len(Alphabet) : Alphabet[i] = c

\* text order: -1, 0 or 1
RECURSIVE TextCompare(_, _)
TextCompare(x, y) ==
  IF x = <<>> THEN (IF y = <<>> THEN 0 ELSE 0 - 1)
  ELSE IF y = <<>> THEN 1
  ELSE IF CharCode(Head(x)) < CharCode(Head(y)) THEN 0 - 1
  ELSE IF CharCode(Head(x)) > CharCode(Head(y)) THEN 1
  ELSE TextCompare(Tail(x), Tail(y))

\* a letter without its case
FoldCase(c) ==
  CASE c = "A" -> "a" [] c = "M" -> "m" [] c = "R" -> "r" [] c = "T" -> "t"
    [] c = "V" -> "v" [] OTHER -> c

\* the characters of the model's texts in the order of the collation the
\* browsers' localeCompare uses (CLDR root): white space, punctuation,
\* symbols, digits, letters; a letter's case does not count at this level
CollationOrder ==
  <<" ", "-", ":", "+", "0", "1", "2", "3", "4", "5", "6", "7", "8", "9",
    "a", "b", "c", "d", "e", "f", "i", "l", "m", "n", "o", "p", "r", "t", "u", "v">>

PrimaryWeight(c) == CHOOSE i \in 1..Len(CollationOrder) : CollationOrder[i] = FoldCase(c)

\* the first level of the collation: the texts by their primary weights
RECURSIVE PrimaryCompare(_, _)
PrimaryCompare(x, y) ==
  IF x = <<>> THEN (IF y = <<>> THEN 0 ELSE 0 - 1)
  ELSE IF y = <<>> THEN 1
  ELSE IF PrimaryWeight(Head(x)) < PrimaryWeight(Head(y)) THEN 0 - 1
  ELSE IF PrimaryWeight(Head(x)) > PrimaryWeight(Head(y)) THEN 1
  ELSE PrimaryCompare(Tail(x), Tail(y))

\* the case level, for texts equal at the first level: at the first
\* difference the lower-case letter comes first
RECURSIVE CaseCompare(_, _)
CaseCompare(x, y) ==
  IF x = <<>> \/ y = <<>> THEN 0
  ELSE IF Head(x) = Head(y) THEN CaseCompare(Tail(x), Tail(y))
  ELSE IF FoldCase(Head(x)) = Head(x) THEN 0 - 1
  ELSE 1

\* String.prototype.localeCompare with the default locale: -1, 0 or 1
LocaleCompare(x, y) ==
  LET primary == PrimaryCompare(x, y)
  IN IF primary # 0 THEN primary ELSE CaseCompare(x, y)

\* --------------------------------------------------------------- entries

Vendita == Str(<<"v", "e", "n", "d", "i", "t", "a">>)

Affitto == Str(<<"a", "f", "f", "i", "t", "t", "o">>)

Milano == Str(<<"M", "i", "l", "a", "n", "o">>)

Roma == Str(<<"R", "o", "m", "a">>)

Villa == Str(<<"V", "i", "l", "l", "a">>)

Attico == Str(<<"A", "t", "t", "i", "c", "o">>)

Date1 == Str(<<"2", "0", "2", "4", "-", "0", "1">>)

Date2 == Str(<<"2", "0", "2", "4", "-", "0", "2">>)

Img(src, alt) == [src |-> src, alt |-> alt]

\* one element of the payload array; obj is FALSE for an element that is not
\* an object (JSON null), whose property reads throw
Entry(id, titolo, descrizione, prezzo, tipologia, citta, tipoImmobile, dataInserimento, immagini) ==
  [obj |-> TRUE, id |-> id, titolo |-> titolo, descrizione |-> descrizione, prezzo |-> prezzo,
   tipologia |-> tipologia, citta |-> citta, tipoImmobile |-> tipoImmobile,
   dataInserimento |-> dataInserimento, immagini |-> immagini]

NullEntry ==
  [obj |-> FALSE, id |-> Undefined, titolo |-> Undefined, descrizione |-> Undefined,
   prezzo |-> Undefined,
   tipologia |-> Undefined, citta |-> Undefined, tipoImmobile |-> Undefined,
   dataInserimento |-> Undefined, immagini |-> <<>>]

TitoloA == Str(<<"A">>)

TitoloB == Str(<<"b">>)

ImgA == Img(Str(<<"a">>), Str(<<"A">>))

ImgB == Img(Str(<<"b">>), Str(<<>>))

E1 == Entry(Num(1), TitoloA, Str(<<"d">>), Num(100000), Vendita, Milano, Villa, Date2, <<ImgA, ImgB>>)

E2 == Entry(Num(2), TitoloB, Undefined, Num(50000), Affitto, Roma, Undefined, Date1, <<>>)

E3 ==
  Entry(Str(<<"7">>), TitoloA, Undefined, Str(<<"5", "0", "0", "0", "0">>), Affitto, Roma, Villa, Undefined, <<ImgB>>)

E4 == Entry(Num(7), Undefined, Str(<<"d">>), Undefined, Vendita, Milano, Attico, Date2, <<>>)

E5 == Entry(Num(0), TitoloB, Str(<<>>), Str(<<"a", "b", "c">>), Vendita, Roma, Str(<<>>), Date1, <<ImgA>>)

E6 == Entry(Str(<<"0", "7">>), TitoloA, Undefined, Num(0), Affitto, Milano, Attico, Str(<<>>), <<>>)

\* the entries the query functions are applied to
Catalog == {E1, E2, E3, E4, E5, E6}

SeqsUpTo(S, n) == UNION {[1..m -> S] : m \in 0..n}

\* ----------------------------------------------------- listing: the form

\* the text a user can leave in a price bound control
BoundTexts ==
  {<<>>, <<"6", "0", "0", "0", "0">>, <<"a", "b", "c">>, <<"-", "5">>, <<" ", "0", " ">>}

ContrattoValues == {Str(<<>>), Vendita, Affitto}

OrdineValues == {"recente", "prezzo-crescente", "prezzo-decrescente"}

\* the state of #filtri-immobili-form: the value of each control
Form(contratto, prezzoMin, prezzoMax, localita, tipoImmobile, ordine) ==
  [contratto |-> contratto, prezzoMin |-> prezzoMin, prezzoMax |-> prezzoMax,
   localita |-> localita, tipoImmobile |-> tipoImmobile, ordine |-> ordine]

EmptyForm == Form(Str(<<>>), <<>>, <<>>, Str(<<>>), Str(<<>>), "recente")

\* getFiltersFromForm: hasForm is whether the form element is on the page
GetFiltersFromForm(hasForm, form) ==
  IF ~hasForm
  THEN [contratto |-> Str(<<>>), prezzoMin |-> Null, prezzoMax |-> Null,
        localita |-> Str(<<>>), tipoImmobile |-> Str(<<>>), ordine |-> "recente"]
  ELSE LET prezzoMinVal == Trim(form.prezzoMin)
           prezzoMaxVal == Trim(form.prezzoMax)
       IN [contratto |-> Or(form.contratto, Str(<<>>)),
           prezzoMin |-> IF prezzoMinVal = <<>> THEN Null ELSE ParseInt(prezzoMinVal),
           prezzoMax |-> IF prezzoMaxVal = <<>> THEN Null ELSE ParseInt(prezzoMaxVal),
           localita |-> Or(form.localita, Str(<<>>)),
           tipoImmobile |-> Or(form.tipoImmobile, Str(<<>>)),
           ordine |-> IF form.ordine = "" THEN "recente" ELSE form.ordine]

\* ------------------------------------------------------ listing: filter

\* the callback with the bounds tested for truthiness (filters.prezzoMin &&
\* ...): a bound of 0 is skipped
FilterAcceptsTruthyBounds(item, filters) ==
  IF Truthy(filters.contratto) /\ item.tipologia # filters.contratto THEN FALSE
  ELSE LET prezzo == IF TypeofNumber(item.prezzo) THEN item.prezzo ELSE Num(0)
       IN IF Truthy(filters.prezzoMin) /\ NumLt(prezzo, filters.prezzoMin) THEN FALSE
          ELSE IF Truthy(filters.prezzoMax) /\ NumGt(prezzo, filters.prezzoMax) THEN FALSE
          ELSE IF Truthy(filters.localita) /\ item.citta # filters.localita THEN FALSE
          ELSE IF Truthy(filters.tipoImmobile)
                  /\ Or(item.tipoImmobile, Str(<<>>)) # filters.tipoImmobile THEN FALSE
          ELSE TRUE

\* the callback with the price read as the comparators of sortImmobili read
\* it (item.prezzo || 0, coerced by the comparison)
FilterAcceptsCoercedPrice(item, filters) ==
  IF Truthy(filters.contratto) /\ item.tipologia # filters.contratto THEN FALSE
  ELSE LET prezzo == ToNumber(Or(item.prezzo, Num(0)))
       IN IF NotNullish(filters.prezzoMin) /\ ~IsNaN(filters.prezzoMin)
             /\ NumLt(prezzo, filters.prezzoMin) THEN FALSE
          ELSE IF NotNullish(filters.prezzoMax) /\ ~IsNaN(filters.prezzoMax)
                  /\ NumGt(prezzo, filters.prezzoMax) THEN FALSE
          ELSE IF Truthy(filters.localita) /\ item.citta # filters.localita THEN FALSE
          ELSE IF Truthy(filters.tipoImmobile)
                  /\ Or(item.tipoImmobile, Str(<<>>)) # filters.tipoImmobile THEN FALSE
          ELSE TRUE

\* the callback of filterImmobili: one early return per criterion
FilterAccepts(item, filters) ==
  IF Truthy(filters.contratto) /\ item.tipologia # filters.contratto THEN FALSE
  ELSE LET prezzo == IF TypeofNumber(item.prezzo) THEN item.prezzo ELSE Num(0)
       IN IF NotNullish(filters.prezzoMin) /\ ~IsNaN(filters.prezzoMin)
             /\ NumLt(prezzo, filters.prezzoMin) THEN FALSE
          ELSE IF NotNullish(filters.prezzoMax) /\ ~IsNaN(filters.prezzoMax)
                  /\ NumGt(prezzo, filters.prezzoMax) THEN FALSE
          ELSE IF Truthy(filters.localita) /\ item.citta # filters.localita THEN FALSE
          ELSE IF Truthy(filters.tipoImmobile)
                  /\ Or(item.tipoImmobile, Str(<<>>)) # filters.tipoImmobile THEN FALSE
          ELSE TRUE

\* filterImmobili: arg is the argument array as the call leaves it, ret the
\* array it returns (Array.prototype.filter builds a new one)
FilterImmobili(immobili, filters) ==
  [arg |-> immobili,
   ret |-> SelectSeq(immobili, LAMBDA item : FilterAccepts(item, filters))]

\* -------------------------------------------------------- listing: sort

\* the three comparators of sortImmobili: a JavaScript number, maybe NaN
Comparator(ordine, a, b) ==
  IF ordine = "prezzo-crescente"
  THEN Minus(Or(a.prezzo, Num(0)), Or(b.prezzo, Num(0)))
  ELSE IF ordine = "prezzo-decrescente"
  THEN Minus(Or(b.prezzo, Num(0)), Or(a.prezzo, Num(0)))
  ELSE LET dateA == Or(a.dataInserimento, Str(<<>>))
           dateB == Or(b.dataInserimento, Str(<<>>))
       IN Num(LocaleCompare(dateB.s, dateA.s))

\* what Array.prototype.sort makes of a comparator's result: NaN counts as 0
CompareSign(ordine, a, b) ==
  LET v == Comparator(ordine, a, b)
  IN IF v.k = "NaN" THEN 0 ELSE IF v.n < 0 THEN 0 - 1 ELSE IF v.n > 0 THEN 1 ELSE 0

\* the conditions of a consistent comparator on the signs c[i][j]
\* (ECMAScript, Array.prototype.sort)
ConsistentSigns(c, I) ==
  /\ \A i \in I : c[i][i] = 0
  /\ \A i, j \in I : (c[i][j] = 0 => c[j][i] = 0) /\ (c[i][j] < 0 => c[j][i] > 0)
  /\ \A i, j, l \in I :
       /\ (c[i][j] = 0 /\ c[j][l] = 0) => c[i][l] = 0
       /\ (c[i][j] < 0 /\ c[j][l] < 0) => c[i][l] < 0
       /\ (c[i][j] > 0 /\ c[j][l] > 0) => c[i][l] > 0

\* whether the comparator is consistent on the elements of list: otherwise
\* the sort order is implementation-defined. A comparator that yields NaN for
\* no element against itself yields it for no pair, and is then a difference
\* of numbers or a text order
ConsistentComparator(list, ordine) ==
  LET I == 1..Len(list)
  IN \/ \A i \in I : Comparator(ordine, list[i], list[i]).k = "number"
     \/ ConsistentSigns([i \in I |-> [j \in I |-> CompareSign(ordine, list[i], list[j])]], I)

RECURSIVE InsertSorted(_, _, _)
InsertSorted(sorted, x, ordine) ==
  IF sorted # <<>> /\ CompareSign(ordine, sorted[Len(sorted)], x) > 0
  THEN Append(InsertSorted(SubSeq(sorted, 1, Len(sorted) - 1), x, ordine), sorted[Len(sorted)])
  ELSE Append(sorted, x)

\* the stable sort every engine performs under a consistent comparator
RECURSIVE StableSort(_, _)
StableSort(list, ordine) ==
  IF list = <<>> THEN <<>>
  ELSE InsertSorted(StableSort(SubSeq(list, 1, Len(list) - 1), ordine), list[Len(list)], ordine)

Rearrangements(list) ==
  LET I == 1..Len(list)
  IN {[i \in I |-> list[p[i]]] : p \in {q \in [I -> I] : \A i, j \in I : q[i] = q[j] => i = j}}

\* Array.prototype.sort in place: the orders the array can be left in
ArraySort(list, ordine) ==
  IF ConsistentComparator(list, ordine) THEN {StableSort(list, ordine)}
  ELSE Rearrangements(list)

\* sortImmobili without the slice(): the sort is done on the argument itself
SortImmobiliInPlace(immobili, ordine) ==
  {[arg |-> sorted, ret |-> sorted] : sorted \in ArraySort(immobili, ordine)}

\* sortImmobili: arg is the argument array as the call leaves it, ret the
\* array it returns
SortImmobili(immobili, ordine) ==
  LET list == immobili  \* immobili.slice()
  IN {[arg |-> immobili, ret |-> sorted] : sorted \in ArraySort(list, ordine)}

\* ------------------------------------------------------ detail: resolve

RECURSIVE FindLoop(_, _, _)
FindLoop(immobili, id, i) ==
  IF i > Len(immobili) THEN [threw |-> FALSE, ret |-> <<>>]
  ELSE LET item == immobili[i]
       IN IF ~item.obj THEN [threw |-> TRUE, ret |-> <<>>]
          ELSE IF String(item.id) = String(id) THEN [threw |-> FALSE, ret |-> <<item>>]
          ELSE FindLoop(immobili, id, i + 1)

\* findImmobileById: ret is <<>> for null and <<item>> for the item found;
\* threw is TRUE when reading the id of an element that is no object throws
FindImmobileById(immobili, id) ==
  IF ~Truthy(id) \/ Len(immobili) = 0 THEN [threw |-> FALSE, ret |-> <<>>]
  ELSE FindLoop(immobili, id, 1)

\* ------------------------------------------------------------ data load

\* what the network makes of fetch('data/immobili.json'): a transport
\* failure, or a response with its status, whether its body parses as JSON,
\* whether the parsed value is an array, and the elements it carries
Outcome(kind, ok, parses, isArray, items) ==
  [kind |-> kind, ok |-> ok, parses |-> parses, isArray |-> isArray, items |-> items]

NetworkError == Outcome("network_error", FALSE, FALSE, FALSE, <<>>)

HttpError == Outcome("response", FALSE, TRUE, TRUE, <<E1>>)

BadJson == Outcome("response", TRUE, FALSE, FALSE, <<>>)

NotAnArray == Outcome("response", TRUE, TRUE, FALSE, <<E1, E2>>)

\* the elements a payload is made of
PayloadEntries == {E1, E2, E3, NullEntry}

Outcomes ==
  {NetworkError, HttpError, BadJson, NotAnArray}
    \cup {Outcome("response", TRUE, TRUE, TRUE, items) : items \in SeqsUpTo(PayloadEntries, MaxSnap)}

Settled(st, val) == [st |-> st, val |-> val]

\* fetchImmobili without its .catch: a failure rejects the promise
FetchImmobiliNoCatch(outcome) ==
  LET fetched == IF outcome.kind = "network_error" THEN Settled("rejected", <<>>)
                 ELSE Settled("fulfilled", <<>>)
      parsed == IF fetched.st = "rejected" THEN fetched
                ELSE IF ~outcome.ok THEN Settled("rejected", <<>>)
                ELSE IF ~outcome.parses THEN Settled("rejected", <<>>)
                ELSE Settled("fulfilled", outcome.items)
  IN IF parsed.st = "rejected" THEN parsed
     ELSE Settled("fulfilled", IF outcome.isArray THEN parsed.val ELSE <<>>)

\* fetchImmobili: the promise chain fetch().then(json).then(array).catch([])
FetchImmobili(outcome) ==
  LET fetched == IF outcome.kind = "network_error" THEN Settled("rejected", <<>>)
                 ELSE Settled("fulfilled", <<>>)
      parsed == IF fetched.st = "rejected" THEN fetched
                ELSE IF ~outcome.ok THEN Settled("rejected", <<>>)
                ELSE IF ~outcome.parses THEN Settled("rejected", <<>>)
                ELSE Settled("fulfilled", outcome.items)
      checked == IF parsed.st = "rejected" THEN parsed
                 ELSE Settled("fulfilled", IF outcome.isArray THEN parsed.val ELSE <<>>)
  IN IF checked.st = "rejected" THEN Settled("fulfilled", <<>>) ELSE checked

\* a promise returned by fetchImmobili: not yet created, pending, or settled
\* with the outcome the network gave
NoPromise == [st |-> "none", val |-> <<>>, outcome |-> NetworkError]

PendingPromise == [st |-> "pending", val |-> <<>>, outcome |-> NetworkError]

SettledPromise(outcome) ==
  LET r == FetchImmobili(outcome)
  IN [st |-> r.st, val |-> r.val, outcome |-> outcome]

\* ------------------------------------------------------- card composer

RECURSIVE EscapeText(_)
EscapeText(s) ==
  IF s = <<>> THEN <<>>
  ELSE (CASE Head(s) = "&" -> <<"&", "a", "m", "p", ";">>
          [] Head(s) = "<" -> <<"&", "l", "t", ";">>
          [] Head(s) = ">" -> <<"&", "g", "t", ";">>
          [] OTHER -> <<Head(s)>>) \o EscapeText(Tail(s))

\* escapeHtml
EscapeHtml(v) == IF ~NotNullish(v) THEN <<>> ELSE EscapeText(String(v))

Placeholder == Str(<<"p">>)

Immobile == Str(<<"I", "m", "m", "o", "b", "i", "l", "e">>)

\* getPrimaImmagine without the test of the first image's src
GetPrimaImmagineAnyFirst(immobile) ==
  LET immagini == immobile.immagini
  IN IF Len(immagini) > 0
     THEN [src |-> immagini[1].src, alt |-> Or(immagini[1].alt, immobile.titolo)]
     ELSE [src |-> Placeholder, alt |-> Or(immobile.titolo, Immobile)]

\* getPrimaImmagine
GetPrimaImmagine(immobile) ==
  LET immagini == immobile.immagini
  IN IF Len(immagini) > 0 /\ Truthy(immagini[1].src)
     THEN [src |-> immagini[1].src, alt |-> Or(immagini[1].alt, immobile.titolo)]
     ELSE [src |-> Placeholder, alt |-> Or(immobile.titolo, Immobile)]

\* getBadge / getBadgeText
GetBadgeText(tipologia) == IF tipologia = Affitto THEN "Affitto" ELSE "Vendita"

\* buildCardHtml: the parts interpolated into the card markup
BuildCardHtml(immobile) ==
  LET img == GetPrimaImmagine(immobile)
  IN [src |-> EscapeHtml(img.src), alt |-> EscapeHtml(img.alt),
      badge |-> GetBadgeText(immobile.tipologia),
      titolo |-> EscapeHtml(immobile.titolo),
      href |-> String(immobile.id)]

\* reading a property of an element that is no object throws a TypeError
HasNonObject(immobili) == \E i \in 1..Len(immobili) : ~immobili[i].obj

Cards(immobili) == [i \in 1..Len(immobili) |-> BuildCardHtml(immobili[i])]

\* ---------------------------------------------------- option synthesizer

\* the loop of populateFilterOptions on one field: the truthy values, each
\* once, in order of first occurrence
RECURSIVE Distinct(_)
Distinct(values) ==
  IF values = <<>> THEN <<>>
  ELSE LET front == Distinct(SubSeq(values, 1, Len(values) - 1))
           v == values[Len(values)]
       IN IF Truthy(v) /\ ~(\E i \in 1..Len(front) : front[i] = v)
          THEN Append(front, v) ELSE front

RECURSIVE InsertText(_, _)
InsertText(sorted, x) ==
  IF sorted # <<>> /\ TextCompare(String(sorted[Len(sorted)]), String(x)) > 0
  THEN Append(InsertText(SubSeq(sorted, 1, Len(sorted) - 1), x), sorted[Len(sorted)])
  ELSE Append(sorted, x)

\* Array.prototype.sort without a comparator: by the string forms, in code
\* unit order
RECURSIVE DefaultSort(_)
DefaultSort(values) ==
  IF values = <<>> THEN <<>>
  ELSE InsertText(DefaultSort(SubSeq(values, 1, Len(values) - 1)), values[Len(values)])

\* the option lists populateFilterOptions derives from the data
DeriveOptions(immobili) ==
  [localita |-> DefaultSort(Distinct([i \in 1..Len(immobili) |-> immobili[i].citta])),
   tipoImmobile |-> DefaultSort(Distinct([i \in 1..Len(immobili) |-> immobili[i].tipoImmobile]))]

\* select.value = current taken to keep the value whatever the options are
ReselectKeeping(current, values) == current

\* select.value = current after the options were replaced: the value stays
\* when an option carries it, else no option is selected and the value is ''
Reselect(current, values) ==
  IF Truthy(current) /\ (\E i \in 1..Len(values) : values[i] = current) THEN current
  ELSE Str(<<>>)

\* ------------------------------------------------------ result presenter

\* updateResultCount
ResultCount(count) ==
  IF count = 0 THEN [count |-> 0, text |-> "Nessun immobile trovato. Prova a modificare i filtri."]
  ELSE IF count = 1 THEN [count |-> 1, text |-> "1 immobile trovato"]
  ELSE [count |-> count, text |-> "immobili trovati"]

\* renderGrid without the hiding of the fallback when there are cards
RenderGridKeepingFallback(filtered) ==
  IF Len(filtered) = 0
  THEN [grid |-> "none", cards |-> <<>>, fallback |-> "block", resultCount |-> ResultCount(0)]
  ELSE [grid |-> "", cards |-> Cards(filtered), fallback |-> "block",
        resultCount |-> ResultCount(Len(filtered))]

\* renderGrid: the listing page's grid, fallback and count after the call
RenderGrid(filtered) ==
  IF Len(filtered) = 0
  THEN [grid |-> "none", cards |-> <<>>, fallback |-> "block", resultCount |-> ResultCount(0)]
  ELSE [grid |-> "", cards |-> Cards(filtered), fallback |-> "none",
        resultCount |-> ResultCount(Len(filtered))]

\* ---------------------------------------------------- metadata injector

MAX_CARD_HOME == 6

MetaDescriptionLength == 160

Slice(s, n) == SubSeq(s, 1, IF Len(s) < n THEN Len(s) ELSE n)

TitleSuffix ==
  <<" ", "|", " ", "I", "m", "m", "o", "b", "i", "l", "i", " ", "|", " ", "A", "g", "e", "n", "z", "i", "a", " ", "I", "m", "m", "o", "b", "i", "l", "i", "a", "r", "e">>

\* the title and description the static page carries
StaticMeta == [title |-> <<>>, description |-> <<>>, updated |-> FALSE]

\* updateMetaTags: document.title and the description; the synthesized
\* description is built from the fields the model's entries carry
UpdateMetaTags(immobile) ==
  LET title == EscapeHtml(immobile.titolo) \o TitleSuffix
      desc == IF Truthy(immobile.descrizione) THEN String(immobile.descrizione)
              ELSE String(immobile.titolo) \o <<",", " ">> \o String(immobile.citta) \o <<".", " ">>
  IN [title |-> title, description |-> Slice(desc, MetaDescriptionLength), updated |-> TRUE]

JSONLD_OFFER_ID == "jsonld-offer"

JSONLD_AGENT_ID == "jsonld-real-estate-agent"

Block(id, type, name, price) == [id |-> id, type |-> type, name |-> name, price |-> price]

\* the first element of head with the given id removed: existing.remove()
RECURSIVE RemoveFirst(_, _)
RemoveFirst(head, id) ==
  IF head = <<>> THEN <<>>
  ELSE IF Head(head).id = id THEN Tail(head)
  ELSE <<Head(head)>> \o RemoveFirst(Tail(head), id)

HasBlock(head, id) == \E i \in 1..Len(head) : head[i].id = id

\* injectJsonLdOffer without the removal of the existing block
InjectJsonLdOfferAppending(head, immobile) ==
  Append(head,
         Block(JSONLD_OFFER_ID, "Offer", String(Or(immobile.titolo, Str(<<>>))),
               IF TypeofNumber(immobile.prezzo) THEN immobile.prezzo ELSE Num(0)))

\* injectJsonLdOffer: the structured-data blocks of the page head afterwards
InjectJsonLdOffer(head, immobile) ==
  Append(RemoveFirst(head, JSONLD_OFFER_ID),
         Block(JSONLD_OFFER_ID, "Offer", String(Or(immobile.titolo, Str(<<>>))),
               IF TypeofNumber(immobile.prezzo) THEN immobile.prezzo ELSE Num(0)))

\* injectRealEstateAgentSchema
InjectRealEstateAgentSchema(head) ==
  IF HasBlock(head, JSONLD_AGENT_ID) THEN head
  ELSE Append(head, Block(JSONLD_AGENT_ID, "RealEstateAgent", TitleSuffix, Num(0)))

\* -------------------------------------------------------- detail page

NoGallery == [set |-> FALSE, src |-> <<>>, alt |-> <<>>, thumbs |-> 0]

\* renderGallery: the main image and the number of thumbnail buttons
RenderGallery(immobile) ==
  LET immagini == immobile.immagini
  IN IF Len(immagini) = 0
     THEN LET img == GetPrimaImmagine(immobile)
          IN [set |-> TRUE, src |-> EscapeHtml(img.src), alt |-> EscapeHtml(img.alt), thumbs |-> 0]
     ELSE [set |-> TRUE, src |-> EscapeHtml(immagini[1].src), alt |-> EscapeHtml(immagini[1].alt),
           thumbs |-> IF Len(immagini) > 1 THEN Len(immagini) ELSE 0]

\* the click listener of the thumbnail data-index idx (counted from 0) with
\* an index outside the images answered by the last image
ThumbClickClamped(gallery, immagini, idx) ==
  IF Len(immagini) > 1
  THEN LET i == IF idx >= 0 /\ idx < Len(immagini) THEN idx ELSE Len(immagini) - 1
           im == immagini[i + 1]
       IN [gallery EXCEPT !.src = String(im.src), !.alt = String(Or(im.alt, Str(<<>>)))]
  ELSE gallery

\* the click listener of the thumbnail data-index idx (counted from 0):
\* listeners exist only when there is more than one image, and immagini[idx]
\* is undefined outside the array
ThumbClick(gallery, immagini, idx) ==
  IF Len(immagini) > 1 /\ idx >= 0 /\ idx < Len(immagini)
  THEN LET im == immagini[idx + 1]
       IN [gallery EXCEPT !.src = String(im.src), !.alt = String(Or(im.alt, Str(<<>>)))]
  ELSE gallery

\* the detail page as the static markup has it
StaticDetail == [wrap |-> "static", fallback |-> "static", shown |-> <<>>, gallery |-> NoGallery]

\* renderImmobileDetail
RenderImmobileDetail(dom, immobile) ==
  [wrap |-> "", fallback |-> "none", shown |-> <<immobile>>, gallery |-> RenderGallery(immobile)]

\* showImmobileFallback without the hiding of the detail container
ShowImmobileFallbackKeepingWrap(dom) == [dom EXCEPT !.fallback = "block"]

\* showImmobileFallback
ShowImmobileFallback(dom) == [dom EXCEPT !.wrap = "none", !.fallback = "block"]

\* getQueryParam('id'): param is <<>> when the query string has no id, else
\* <<text>>
GetQueryParam(param) ==
  IF param # <<>> /\ param[1] # <<>> THEN Str(param[1]) ELSE Null

\* ---------------------------------------------------------- home page

StaticHome == [grid |-> "static", fallback |-> "static", cards |-> <<>>]

\* showFallback
ShowFallback(dom) == [dom EXCEPT !.grid = "none", !.fallback = "block"]

\* hideFallback
HideFallback(dom) == [dom EXCEPT !.fallback = "none", !.grid = ""]

\* -------------------------------------------------------- listing page

StaticListing ==
  [grid |-> "static", cards |-> <<>>, fallback |-> "static",
   resultCount |-> [count |-> 0, text |-> ""]]

StaticOptions == [localita |-> <<>>, tipoImmobile |-> <<>>]

\* ----------------------------------------------------------- contact form

NomeMinLength == 2

NomeMaxLength == 200

TelefonoMinLength == 8

TelefonoMaxLength == 20

MessaggioMinLength == 10

MessaggioMaxLength == 2000

\* the names of the controls, in the order of clearAllErrors and focusFirstError
FieldNames == <<"nome", "email", "telefono", "messaggio", "gdpr">>

Fields == {FieldNames[i] : i \in 1..Len(FieldNames)}

\* MESSAGES
MsgRequired == "Campo obbligatorio."

MsgNomeMinLength == "Inserisci almeno 2 caratteri."

MsgNomeMaxLength == "Nome troppo lungo."

MsgEmailInvalid == "Inserisci un indirizzo email valido."

MsgTelefonoInvalid == "Formato telefono non valido (es. +39 333 1234567)."

MsgMessaggioMinLength == "Il messaggio deve contenere almeno 10 caratteri."

MsgMessaggioMaxLength == "Messaggio troppo lungo."

MsgGdprRequired == "Devi accettare il trattamento dei dati per inviare il modulo."

\* no error on a field: the key is absent from errors, no .form-error is shown
NoError == ""

NoErrors == [name \in Fields |-> NoError]

\* the live region without text
NoAnnouncement == [count |-> 0, text |-> ""]

\* getFieldValue: '1' or '' for the checkbox, the trimmed value otherwise
GetFieldValue(values, name) ==
  IF name = "gdpr" THEN (IF values.gdpr THEN <<"1">> ELSE <<>>)
  ELSE Trim(values[name])

\* a character of the class [^\s@]
NoSpaceNoAt(c) == ~IsSpace(c) /\ c # "@"

\* isValidEmail: /^[^\s@]+@[^\s@]+\.[^\s@]+$/
IsValidEmail(str) ==
  \E at \in 2..Len(str) :
    /\ str[at] = "@"
    /\ \A i \in (1..Len(str)) \ {at} : NoSpaceNoAt(str[i])
    /\ \E dot \in (at + 2)..(Len(str) - 1) : str[dot] = "."

\* RULES.telefono.pattern: /^[\d\s\+\-\(\)]{8,20}$/
TelefonoPattern(str) ==
  /\ Len(str) >= TelefonoMinLength
  /\ Len(str) <= TelefonoMaxLength
  /\ \A i \in 1..Len(str) :
       IsDigit(str[i]) \/ IsSpace(str[i]) \/ str[i] \in {"+", "-", "(", ")"}

\* validateForm: the message of each control, NoError where errors has no key
ValidateForm(values) ==
  LET nome == GetFieldValue(values, "nome")
      email == GetFieldValue(values, "email")
      telefono == GetFieldValue(values, "telefono")
      messaggio == GetFieldValue(values, "messaggio")
      gdpr == GetFieldValue(values, "gdpr")
      errors ==
        [nome |-> IF nome = <<>> THEN MsgRequired
                  ELSE IF Len(nome) > 0 /\ Len(nome) < NomeMinLength THEN MsgNomeMinLength
                  ELSE IF Len(nome) > NomeMaxLength THEN MsgNomeMaxLength
                  ELSE NoError,
         email |-> IF email = <<>> THEN MsgRequired
                   ELSE IF ~IsValidEmail(email) THEN MsgEmailInvalid
                   ELSE NoError,
         telefono |-> IF telefono # <<>> /\ ~TelefonoPattern(telefono) THEN MsgTelefonoInvalid
                      ELSE NoError,
         messaggio |-> IF messaggio = <<>> THEN MsgRequired
                       ELSE IF Len(messaggio) > 0 /\ Len(messaggio) < MessaggioMinLength
                       THEN MsgMessaggioMinLength
                       ELSE IF Len(messaggio) > MessaggioMaxLength THEN MsgMessaggioMaxLength
                       ELSE NoError,
         gdpr |-> IF gdpr = <<>> THEN MsgGdprRequired ELSE NoError]
  IN [valid |-> errors = NoErrors, errors |-> errors]

\* Object.keys(errors), in the order the keys are set
ErrorKeys(errors) == SelectSeq(FieldNames, LAMBDA name : errors[name] # NoError)

\* showFieldError: aria-invalid and the .form-error of the control's group
ShowFieldError(c, fieldName, message) == [c EXCEPT !.shown[fieldName] = message]

\* clearFieldError
ClearFieldError(c, fieldName) == [c EXCEPT !.shown[fieldName] = NoError]

\* clearAllErrors: every control, then the live region
ClearAllErrors(c) == [c EXCEPT !.shown = NoErrors, !.live = NoAnnouncement]

\* focusFirstError without its break: the last control that has an error
FocusLastError(c, errors) ==
  IF ErrorKeys(errors) = <<>> THEN c
  ELSE [c EXCEPT !.focus = ErrorKeys(errors)[Len(ErrorKeys(errors))]]

\* focusFirstError: the first control of the order that has an error
FocusFirstError(c, errors) ==
  IF ErrorKeys(errors) = <<>> THEN c ELSE [c EXCEPT !.focus = Head(ErrorKeys(errors))]

\* the text of announceErrors: the count and the sentence around it
AnnounceText(count) ==
  [count |-> count, text |-> "Il modulo contiene (count) errori. Controlla i campi evidenziati."]

\* announceErrors
AnnounceErrors(c, count) == [c EXCEPT !.live = AnnounceText(count)]

\* showSuccess
ShowSuccess(c) == [c EXCEPT !.success = "block", !.formWrap = "none"]

\* showFieldError for every key of errors, in their order
RECURSIVE ShowAll(_, _, _)
ShowAll(c, keys, errors) ==
  IF keys = <<>> THEN c
  ELSE ShowAll(ShowFieldError(c, Head(keys), errors[Head(keys)]), Tail(keys), errors)

\* handleSubmit
HandleSubmit(c) ==
  LET cleared == ClearAllErrors(c)
      result == ValidateForm(cleared.values)
      keys == ErrorKeys(result.errors)
  IN IF ~result.valid
     THEN AnnounceErrors(FocusFirstError(ShowAll(cleared, keys, result.errors), result.errors),
                         Len(keys))
     ELSE ShowSuccess(cleared)

\* handleBlur on the control of that name
HandleBlur(c, name) ==
  LET cleared == ClearFieldError(c, name)
      result == ValidateForm(cleared.values)
  IN IF result.errors[name] # NoError THEN ShowFieldError(cleared, name, result.errors[name])
     ELSE cleared

\* handleInput that clears nothing
HandleInputKeepingError(c, name) == c

\* handleInput on the control of that name: the input and the change event
HandleInput(c, name) == ClearFieldError(c, name)

\* the contact page as the browser has parsed it: empty controls, the consent
\* not given, no error, the confirmation and the form as the markup has them
StaticContact ==
  [values |-> [nome |-> <<>>, email |-> <<>>, telefono |-> <<>>, messaggio |-> <<>>,
               gdpr |-> FALSE],
   shown |-> NoErrors, focus |-> "", live |-> NoAnnouncement, success |-> "static",
   formWrap |-> "static"]

\* ------------------------------------------------------------ page chrome

\* the header as the markup has it (a nav and an inner wrapper, no button),
\* and no sticky bar: hamburgers counts the buttons in the header, handlers
\* the sets of listeners bound to a button, ariaExpanded and ariaLabel are
\* the button's attributes, focused whether the script gave it the focus
StaticChrome ==
  [hamburgers |-> 0, handlers |-> 0, navOpen |-> FALSE, ariaExpanded |-> "", ariaLabel |-> "",
   focused |-> FALSE, ctaSticky |-> FALSE]

\* initHeaderMobile without the test for a button that is already there
InitHeaderMobileAgain(c) ==
  [c EXCEPT !.hamburgers = @ + 1, !.handlers = @ + 1, !.ariaExpanded = "false",
            !.ariaLabel = "Apri menu"]

\* initHeaderMobile
InitHeaderMobile(c) ==
  IF c.hamburgers > 0 THEN c
  ELSE [c EXCEPT !.hamburgers = @ + 1, !.handlers = @ + 1, !.ariaExpanded = "false",
                 !.ariaLabel = "Apri menu"]

\* the button's click listener
HamburgerClick(c) ==
  LET open == ~c.navOpen
  IN [c EXCEPT !.navOpen = open,
               !.ariaExpanded = IF open THEN "true" ELSE "false",
               !.ariaLabel = IF open THEN "Chiudi menu" ELSE "Apri menu"]

\* the click listener of the nav's links
NavLinkClick(c) ==
  [c EXCEPT !.navOpen = FALSE, !.ariaExpanded = "false", !.ariaLabel = "Apri menu"]

\* the keydown listener, on the Escape key
EscapeKeydown(c) ==
  IF c.navOpen
  THEN [c EXCEPT !.navOpen = FALSE, !.ariaExpanded = "false", !.ariaLabel = "Apri menu",
                 !.focused = TRUE]
  ELSE c

\* initCtaSticky
InitCtaSticky(c) == [c EXCEPT !.ctaSticky = TRUE]

\* ----------------------------------------------------------------- state

VARIABLES
  page,         \* the page the scripts run on: "home", "listing" or "detail"
  queryId,      \* the id parameter of the query string: <<>> or <<text>>
  pc,           \* "loading", "booted" (boot has run), "ready" (init has run)
  fetchCount,   \* fetches of data/immobili.json issued so far
  pMain,        \* the promise of fetchImmobili() in the home/detail script
  pListing,     \* the promise of fetchImmobili() in the listing script
  cbMain,       \* the .then callback on pMain: "idle", "thrown" or "done"
  cbListing,    \* the .then callback on pListing: "idle", "thrown" or "done"
  head,         \* the structured-data blocks in document.head, in order
  meta,         \* document.title and the description meta tags
  chrome,       \* hamburger button and sticky bar
  homeDom,      \* #home-immobili-grid and its fallback
  detailDom,    \* #immobile-detail, #immobile-not-found and the gallery
  allImmobili,  \* the listing script's cache
  form,         \* the values of the controls of #filtri-immobili-form
  options,      \* the options of the two selects filled from the data
  listeners,    \* whether the form's change and input listeners are attached
  listDom,      \* #immobili-grid, its fallback and the result count
  filteredArr,  \* the array filterImmobili returned to the last render
  sortedArr,    \* the array sortImmobili returned to the last render
  immobiliIn,   \* the array a query function is called with
  formIn,       \* the form a filter call reads
  ordineIn,     \* the key a sort call is given
  idIn,         \* the id a resolve call is given
  qFiltered,    \* what filterImmobili gave
  qSorted,      \* what sortImmobili gave
  qFound,       \* what findImmobileById gave
  calls,        \* the calls made so far, where a function is called repeatedly
  contact,      \* #form-contatti: the controls' values, the errors shown, the focus
  qpc           \* "idle", "input", or the name of the call that was made

pageVars ==
  <<page, queryId, pc, fetchCount, pMain, pListing, cbMain, cbListing, head, meta,
    chrome, homeDom, detailDom, allImmobili, form, options, listeners, listDom,
    filteredArr, sortedArr>>

queryVars == <<contact, immobiliIn, formIn, ordineIn, idIn, qFiltered, qSorted, qFound, calls, qpc>>

vars == <<pageVars, queryVars>>

NoCall == [arg |-> <<>>, ret |-> <<>>]

NoFind == [threw |-> FALSE, ret |-> <<>>]

\* the values the id parameter takes
QueryIds == {<<>>, <<<<>>>>, <<<<"7">>>>, <<<<"2">>>>, <<<<"9", "9">>>>}

\* the texts a user types in a price bound on the page
PageBoundTexts == {<<>>, <<"6", "0", "0", "0", "0">>, <<"a", "b", "c">>}

QueryIdle ==
  /\ immobiliIn = <<>>
  /\ formIn = EmptyForm
  /\ ordineIn = "recente"
  /\ idIn = Undefined
  /\ qFiltered = NoCall
  /\ qSorted = NoCall
  /\ qFound = NoFind
  /\ calls = <<>>
  /\ contact = StaticContact
  /\ qpc = "idle"

\* a page as the browser has parsed it, before any script has run
PageLoaded ==
  /\ pc = "loading"
  /\ fetchCount = 0
  /\ pMain = NoPromise
  /\ pListing = NoPromise
  /\ cbMain = "idle"
  /\ cbListing = "idle"
  /\ head = <<>>
  /\ meta = StaticMeta
  /\ chrome = StaticChrome
  /\ homeDom = StaticHome
  /\ detailDom = StaticDetail
  /\ allImmobili = <<>>
  /\ form = EmptyForm
  /\ options = StaticOptions
  /\ listeners = FALSE
  /\ listDom = StaticListing
  /\ filteredArr = <<>>
  /\ sortedArr = <<>>

Init ==
  /\ page \in {"home", "listing", "detail"}
  /\ queryId \in (IF page = "detail" THEN QueryIds ELSE {<<>>})
  /\ PageLoaded
  /\ QueryIdle

\* --------------------------------------------- home / detail script

\* initImmobileDetail without the test of the id: the fetch is always issued
InitImmobileDetailUnguarded ==
  /\ pMain' = PendingPromise
  /\ fetchCount' = fetchCount + 1
  /\ UNCHANGED detailDom

\* initImmobileDetail, up to the fetch
InitImmobileDetail ==
  LET id == GetQueryParam(queryId)
  IN IF ~Truthy(id)
     THEN /\ detailDom' = ShowImmobileFallback(detailDom)
          /\ UNCHANGED <<pMain, fetchCount>>
     ELSE /\ pMain' = PendingPromise
          /\ fetchCount' = fetchCount + 1
          /\ UNCHANGED detailDom

\* initHomeImmobili, up to the fetch
InitHomeImmobili ==
  IF page # "home"
  THEN UNCHANGED <<pMain, fetchCount, detailDom>>
  ELSE /\ pMain' = PendingPromise
       /\ fetchCount' = fetchCount + 1
       /\ UNCHANGED detailDom

\* boot: agency block, hamburger, sticky bar, then the page's own start
Boot ==
  /\ pc = "loading"
  /\ pc' = "booted"
  /\ head' = InjectRealEstateAgentSchema(head)
  /\ chrome' = InitCtaSticky(InitHeaderMobile(chrome))
  /\ IF page = "detail" THEN InitImmobileDetail ELSE InitHomeImmobili
  /\ UNCHANGED <<page, queryId, pListing, cbMain, cbListing, meta, homeDom, allImmobili,
                 form, options, listeners, listDom, filteredArr, sortedArr>>
  /\ UNCHANGED queryVars

\* the response to the home/detail script's fetch arrives, or fails
SettleMain ==
  /\ pMain.st = "pending"
  /\ \E outcome \in Outcomes : pMain' = SettledPromise(outcome)
  /\ UNCHANGED <<page, queryId, pc, fetchCount, pListing, cbMain, cbListing, head, meta,
                 chrome, homeDom, detailDom, allImmobili, form, options, listeners,
                 listDom, filteredArr, sortedArr>>
  /\ UNCHANGED queryVars

\* the .then callback of initHomeImmobili
HomeThen ==
  /\ page = "home"
  /\ pMain.st = "fulfilled"
  /\ cbMain = "idle"
  /\ LET slice == Slice(pMain.val, MAX_CARD_HOME)
     IN IF Len(slice) = 0
        THEN homeDom' = ShowFallback(homeDom) /\ cbMain' = "done"
        ELSE IF HasNonObject(slice)
        THEN homeDom' = HideFallback(homeDom) /\ cbMain' = "thrown"
        ELSE /\ homeDom' = [HideFallback(homeDom) EXCEPT !.cards = Cards(slice)]
             /\ cbMain' = "done"
  /\ UNCHANGED <<page, queryId, pc, fetchCount, pMain, pListing, cbListing, head, meta,
                 chrome, detailDom, allImmobili, form, options, listeners, listDom,
                 filteredArr, sortedArr>>
  /\ UNCHANGED queryVars

\* the .catch callback of initHomeImmobili
HomeCatch ==
  /\ page = "home"
  /\ (pMain.st = "rejected" /\ cbMain = "idle") \/ cbMain = "thrown"
  /\ homeDom' = ShowFallback(homeDom)
  /\ cbMain' = "done"
  /\ UNCHANGED <<page, queryId, pc, fetchCount, pMain, pListing, cbListing, head, meta,
                 chrome, detailDom, allImmobili, form, options, listeners, listDom,
                 filteredArr, sortedArr>>
  /\ UNCHANGED queryVars

\* the .then callback of initImmobileDetail
DetailThen ==
  /\ page = "detail"
  /\ pMain.st = "fulfilled"
  /\ cbMain = "idle"
  /\ LET found == FindImmobileById(pMain.val, GetQueryParam(queryId))
     IN IF found.threw
        THEN cbMain' = "thrown" /\ UNCHANGED <<meta, head, detailDom>>
        ELSE IF found.ret = <<>>
        THEN /\ detailDom' = ShowImmobileFallback(detailDom)
             /\ cbMain' = "done"
             /\ UNCHANGED <<meta, head>>
        ELSE /\ meta' = UpdateMetaTags(found.ret[1])
             /\ head' = InjectJsonLdOffer(head, found.ret[1])
             /\ detailDom' = RenderImmobileDetail(detailDom, found.ret[1])
             /\ cbMain' = "done"
  /\ UNCHANGED <<page, queryId, pc, fetchCount, pMain, pListing, cbListing, chrome,
                 homeDom, allImmobili, form, options, listeners, listDom, filteredArr,
                 sortedArr>>
  /\ UNCHANGED queryVars

\* the .catch callback of initImmobileDetail
DetailCatch ==
  /\ page = "detail"
  /\ (pMain.st = "rejected" /\ cbMain = "idle") \/ cbMain = "thrown"
  /\ detailDom' = ShowImmobileFallback(detailDom)
  /\ cbMain' = "done"
  /\ UNCHANGED <<page, queryId, pc, fetchCount, pMain, pListing, cbListing, head, meta,
                 chrome, homeDom, allImmobili, form, options, listeners, listDom,
                 filteredArr, sortedArr>>
  /\ UNCHANGED queryVars

\* ---------------------------------------------------- listing script

\* applyFiltersAndRender with a reload of the data on every call
ApplyFiltersAndRenderRefetching(snapshot, formNow) ==
  \E filters \in {GetFiltersFromForm(TRUE, formNow)} :
    \E filtered \in {FilterImmobili(snapshot, filters)} :
     \E sorted \in SortImmobili(filtered.ret, filters.ordine) :
       /\ allImmobili' = filtered.arg
       /\ filteredArr' = sorted.arg
       /\ sortedArr' = sorted.ret
       /\ listDom' = RenderGrid(sorted.ret)
       /\ fetchCount' = fetchCount + 1

\* applyFiltersAndRender: snapshot is allImmobili and formNow the form as the
\* call finds them
ApplyFiltersAndRender(snapshot, formNow) ==
  \E filters \in {GetFiltersFromForm(TRUE, formNow)} :
    \E filtered \in {FilterImmobili(snapshot, filters)} :
     \E sorted \in SortImmobili(filtered.ret, filters.ordine) :
       /\ allImmobili' = filtered.arg
       /\ filteredArr' = sorted.arg
       /\ sortedArr' = sorted.ret
       /\ listDom' = RenderGrid(sorted.ret)
       /\ fetchCount' = fetchCount

\* init of the listing script, up to the fetch
ListingInit ==
  /\ pc = "booted"
  /\ pc' = "ready"
  /\ IF page = "listing"
     THEN pListing' = PendingPromise /\ fetchCount' = fetchCount + 1
     ELSE UNCHANGED <<pListing, fetchCount>>
  /\ UNCHANGED <<page, queryId, pMain, cbMain, cbListing, head, meta, chrome, homeDom,
                 detailDom, allImmobili, form, options, listeners, listDom, filteredArr,
                 sortedArr>>
  /\ UNCHANGED queryVars

\* the response to the listing script's fetch arrives, or fails
SettleListing ==
  /\ pListing.st = "pending"
  /\ \E outcome \in Outcomes : pListing' = SettledPromise(outcome)
  /\ UNCHANGED <<page, queryId, pc, fetchCount, pMain, cbMain, cbListing, head, meta,
                 chrome, homeDom, detailDom, allImmobili, form, options, listeners,
                 listDom, filteredArr, sortedArr>>
  /\ UNCHANGED queryVars

\* populateFilterOptions: the options and the two selects' values afterwards
PopulateFilterOptions(immobili, formNow) ==
  LET derived == DeriveOptions(immobili)
  IN [options |-> derived,
      form |-> [formNow EXCEPT !.localita = Reselect(formNow.localita, derived.localita),
                               !.tipoImmobile = Reselect(formNow.tipoImmobile, derived.tipoImmobile)]]

\* the .then callback of init: cache, fill the selects, render, listen
ListingThen ==
  /\ page = "listing"
  /\ pListing.st = "fulfilled"
  /\ cbListing = "idle"
  /\ LET data == pListing.val
     IN IF HasNonObject(data)
        THEN /\ allImmobili' = data
             /\ cbListing' = "thrown"
             /\ UNCHANGED <<options, form, listeners, listDom, filteredArr, sortedArr, fetchCount>>
        ELSE \E populated \in {PopulateFilterOptions(data, form)} :
               /\ options' = populated.options
               /\ form' = populated.form
               /\ ApplyFiltersAndRender(data, populated.form)
               /\ listeners' = TRUE
               /\ cbListing' = "done"
  /\ UNCHANGED <<page, queryId, pc, pMain, pListing, cbMain, head, meta, chrome, homeDom,
                 detailDom>>
  /\ UNCHANGED queryVars

\* the .catch callback of init
ListingCatch ==
  /\ page = "listing"
  /\ (pListing.st = "rejected" /\ cbListing = "idle") \/ cbListing = "thrown"
  /\ listDom' = RenderGrid(<<>>)
  /\ cbListing' = "done"
  /\ UNCHANGED <<page, queryId, pc, fetchCount, pMain, pListing, cbMain, head, meta,
                 chrome, homeDom, detailDom, allImmobili, form, options, listeners,
                 filteredArr, sortedArr>>
  /\ UNCHANGED queryVars

\* the values the user can give a select: the empty option and the filled ones
SelectValues(name) ==
  CASE name = "contratto" -> ContrattoValues
    [] name = "localita" -> {Str(<<>>)} \cup {options.localita[i] : i \in 1..Len(options.localita)}
    [] name = "tipoImmobile" ->
         {Str(<<>>)} \cup {options.tipoImmobile[i] : i \in 1..Len(options.tipoImmobile)}
    [] OTHER -> OrdineValues

\* the listeners reading the form as it was before the event
HandleFormEventStale(formNow) ==
  IF listeners THEN ApplyFiltersAndRender(allImmobili, form)
  ELSE UNCHANGED <<allImmobili, filteredArr, sortedArr, listDom, fetchCount>>

\* what the form's listeners do with an event, when they are attached
HandleFormEvent(formNow) ==
  IF listeners THEN ApplyFiltersAndRender(allImmobili, formNow)
  ELSE UNCHANGED <<allImmobili, filteredArr, sortedArr, listDom, fetchCount>>

\* the user picks an option of a select: its input and change events
SelectChange ==
  /\ page = "listing"
  /\ \E name \in {"contratto", "localita", "tipoImmobile", "ordine"} :
       \E value \in SelectValues(name) :
         /\ form[name] # value
         /\ form' = [form EXCEPT ![name] = value]
         /\ HandleFormEvent([form EXCEPT ![name] = value])
  /\ UNCHANGED <<page, queryId, pc, pMain, pListing, cbMain, cbListing, head, meta,
                 chrome, homeDom, detailDom, options, listeners>>
  /\ UNCHANGED queryVars

\* the user edits a price bound: its input event
PriceInput ==
  /\ page = "listing"
  /\ \E name \in {"prezzoMin", "prezzoMax"} :
       \E value \in PageBoundTexts :
         /\ form[name] # value
         /\ form' = [form EXCEPT ![name] = value]
         /\ HandleFormEvent([form EXCEPT ![name] = value])
  /\ UNCHANGED <<page, queryId, pc, pMain, pListing, cbMain, cbListing, head, meta,
                 chrome, homeDom, detailDom, options, listeners>>
  /\ UNCHANGED queryVars

\* the user leaves an edited price bound: its change event
PriceChange ==
  /\ page = "listing"
  /\ form.prezzoMin # <<>> \/ form.prezzoMax # <<>>
  /\ HandleFormEvent(form)
  /\ UNCHANGED <<page, queryId, pc, pMain, pListing, cbMain, cbListing, head, meta,
                 chrome, homeDom, detailDom, options, listeners, form>>
  /\ UNCHANGED queryVars

Next ==
  \/ Boot
  \/ ListingInit
  \/ SettleMain
  \/ HomeThen
  \/ HomeCatch
  \/ DetailThen
  \/ DetailCatch
  \/ SettleListing
  \/ ListingThen
  \/ ListingCatch
  \/ SelectChange
  \/ PriceInput
  \/ PriceChange

Spec == Init /\ [][Next]_vars

\* the page with the scheduling the browser gives: a script that is ready to
\* start starts, and a callback whose promise has settled runs; nothing in
\* the code bounds the time the network takes to answer, so the two Settle
\* steps may never happen, and the user need not touch the form
ListingThenReady == page = "listing" /\ pListing.st = "fulfilled" /\ cbListing = "idle"

\* ListingThen is enabled exactly when ListingThenReady holds and always
\* leaves cbListing changed, so its weak fairness is written out on that
\* guard: WF_vars(ListingThen) with ENABLED replaced by ListingThenReady
Fairness ==
  /\ WF_vars(Boot)
  /\ WF_vars(ListingInit)
  /\ WF_vars(HomeThen)
  /\ WF_vars(HomeCatch)
  /\ WF_vars(DetailThen)
  /\ WF_vars(DetailCatch)
  /\ ([]<>(~ListingThenReady) \/ []<><<ListingThen>>_vars)
  /\ WF_vars(ListingCatch)

SpecLive == Init /\ [][Next]_vars /\ Fairness

\* ------------------------------------------- the query functions alone

\* the page, untouched, while a query function is applied on its own
PageAside == page = "listing" /\ queryId = <<>> /\ PageLoaded

\* the forms a filter call reads
FilterForms ==
  {Form(contratto, prezzoMin, prezzoMax, localita, tipoImmobile, "recente") :
     contratto \in {Str(<<>>), Affitto}, prezzoMin \in BoundTexts, prezzoMax \in BoundTexts,
     localita \in {Str(<<>>), Roma}, tipoImmobile \in {Str(<<>>), Villa}}

InitFilter ==
  /\ PageAside
  /\ immobiliIn \in SeqsUpTo(Catalog, MaxLen)
  /\ formIn \in FilterForms
  /\ ordineIn = "recente"
  /\ idIn = Undefined
  /\ qFiltered = NoCall
  /\ qSorted = NoCall
  /\ qFound = NoFind
  /\ calls = <<>>
  /\ contact = StaticContact
  /\ qpc = "input"

\* filterImmobili(immobiliIn, getFiltersFromForm())
CallFilter ==
  /\ qpc = "input"
  /\ qFiltered' = FilterImmobili(immobiliIn, GetFiltersFromForm(TRUE, formIn))
  /\ qpc' = "filtered"
  /\ UNCHANGED <<contact, immobiliIn, formIn, ordineIn, idIn, qSorted, qFound, calls>>
  /\ UNCHANGED pageVars

SpecFilter == InitFilter /\ [][CallFilter]_vars

\* timestamps of one instant's format with UTC offsets of either sign
DateEast == Str(<<"2", "0", "2", "4", "-", "0", "2", "T", "1", "0", "+", "0", "1">>)

DateWest == Str(<<"2", "0", "2", "4", "-", "0", "2", "T", "1", "0", "-", "0", "5">>)

E12 == Entry(Num(12), TitoloA, Undefined, Num(100000), Vendita, Milano, Villa, DateEast, <<>>)

E13 == Entry(Num(13), TitoloB, Undefined, Num(50000), Affitto, Roma, Attico, DateWest, <<>>)

\* the entries a sort call is given
SortCatalog == Catalog \cup {E12, E13}

InitSort ==
  /\ PageAside
  /\ immobiliIn \in SeqsUpTo(SortCatalog, MaxLen)
  /\ formIn = EmptyForm
  /\ ordineIn \in OrdineValues
  /\ idIn = Undefined
  /\ qFiltered = NoCall
  /\ qSorted = NoCall
  /\ qFound = NoFind
  /\ calls = <<>>
  /\ contact = StaticContact
  /\ qpc = "input"

\* sortImmobili(immobiliIn, ordineIn)
CallSort ==
  /\ qpc = "input"
  /\ qSorted' \in SortImmobili(immobiliIn, ordineIn)
  /\ qpc' = "sorted"
  /\ UNCHANGED <<contact, immobiliIn, formIn, ordineIn, idIn, qFiltered, qFound, calls>>
  /\ UNCHANGED pageVars

SpecSort == InitSort /\ [][CallSort]_vars

\* the identifiers a resolve call is given
RequestIds ==
  {Num(0), Num(1), Num(7), Num(99), Str(<<"0">>), Str(<<"1">>), Str(<<"7">>),
   Str(<<"0", "7">>), Str(<<"9", "9">>)}

InitResolve ==
  /\ PageAside
  /\ immobiliIn \in SeqsUpTo(Catalog, MaxLen)
  /\ formIn = EmptyForm
  /\ ordineIn = "recente"
  /\ idIn \in RequestIds
  /\ qFiltered = NoCall
  /\ qSorted = NoCall
  /\ qFound = NoFind
  /\ calls = <<>>
  /\ contact = StaticContact
  /\ qpc = "input"

\* findImmobileById(immobiliIn, idIn)
CallFind ==
  /\ qpc = "input"
  /\ qFound' = FindImmobileById(immobiliIn, idIn)
  /\ qpc' = "found"
  /\ UNCHANGED <<contact, immobiliIn, formIn, ordineIn, idIn, qFiltered, qSorted, calls>>
  /\ UNCHANGED pageVars

SpecResolve == InitResolve /\ [][CallFind]_vars

\* ------------------------------------------- the metadata injector alone

\* a detail page before any script has run, and the entry it is about
InitInject ==
  /\ page = "detail"
  /\ queryId = <<>>
  /\ PageLoaded
  /\ \E immobile \in Catalog : immobiliIn = <<immobile>>
  /\ formIn = EmptyForm
  /\ ordineIn = "recente"
  /\ idIn = Undefined
  /\ qFiltered = NoCall
  /\ qSorted = NoCall
  /\ qFound = NoFind
  /\ calls = <<>>
  /\ contact = StaticContact
  /\ qpc = "input"

InjectFrame ==
  /\ UNCHANGED <<page, queryId, pc, fetchCount, pMain, pListing, cbMain, cbListing, meta,
                 chrome, homeDom, detailDom, allImmobili, form, options, listeners, listDom,
                 filteredArr, sortedArr>>
  /\ UNCHANGED <<contact, immobiliIn, formIn, ordineIn, idIn, qFiltered, qSorted, qFound>>

\* injectJsonLdOffer(immobile), once more
CallInjectJsonLdOffer ==
  /\ Len(calls) < MaxCalls
  /\ head' = InjectJsonLdOffer(head, immobiliIn[1])
  /\ calls' = Append(calls, "offer")
  /\ qpc' = "injected"
  /\ InjectFrame

\* injectRealEstateAgentSchema(), once more
CallInjectRealEstateAgentSchema ==
  /\ Len(calls) < MaxCalls
  /\ head' = InjectRealEstateAgentSchema(head)
  /\ calls' = Append(calls, "agent")
  /\ qpc' = "injected"
  /\ InjectFrame

SpecInject ==
  InitInject /\ [][CallInjectJsonLdOffer \/ CallInjectRealEstateAgentSchema]_vars

\* ------------------------------------------------------ the gallery alone

ImgC == Img(Str(<<"c">>), Undefined)

\* an entry of three images
E7 == Entry(Num(3), TitoloA, Undefined, Num(100000), Vendita, Roma, Villa, Date1, <<ImgA, ImgB, ImgC>>)

\* the entries a gallery is rendered for: one, two and three images
GalleryEntries == {E3, E1, E7}

\* the indexes a selection is made with: data-index values, and values
\* outside every image sequence
ImageIndexes == (0 - 1)..3

\* a detail page on which renderImmobileDetail has rendered the entry
InitGallery ==
  /\ page = "detail"
  /\ queryId = <<>>
  /\ pc = "loading"
  /\ fetchCount = 0
  /\ pMain = NoPromise
  /\ pListing = NoPromise
  /\ cbMain = "idle"
  /\ cbListing = "idle"
  /\ head = <<>>
  /\ meta = StaticMeta
  /\ chrome = StaticChrome
  /\ homeDom = StaticHome
  /\ allImmobili = <<>>
  /\ form = EmptyForm
  /\ options = StaticOptions
  /\ listeners = FALSE
  /\ listDom = StaticListing
  /\ filteredArr = <<>>
  /\ sortedArr = <<>>
  /\ \E immobile \in GalleryEntries :
       /\ immobiliIn = <<immobile>>
       /\ detailDom = RenderImmobileDetail(StaticDetail, immobile)
  /\ formIn = EmptyForm
  /\ ordineIn = "recente"
  /\ idIn = Undefined
  /\ qFiltered = NoCall
  /\ qSorted = NoCall
  /\ qFound = NoFind
  /\ calls = <<>>
  /\ contact = StaticContact
  /\ qpc = "gallery"

\* a selection of the image idx
SelectImage ==
  /\ qpc = "gallery"
  /\ Len(calls) < MaxCalls
  /\ \E idx \in ImageIndexes :
       /\ detailDom' = [detailDom EXCEPT
                          !.gallery = ThumbClick(detailDom.gallery, immobiliIn[1].immagini, idx)]
       /\ calls' = Append(calls, idx)
  /\ UNCHANGED <<page, queryId, pc, fetchCount, pMain, pListing, cbMain, cbListing, head,
                 meta, chrome, homeDom, allImmobili, form, options, listeners, listDom,
                 filteredArr, sortedArr>>
  /\ UNCHANGED <<contact, immobiliIn, formIn, ordineIn, idIn, qFiltered, qSorted, qFound, qpc>>

SpecGallery == InitGallery /\ [][SelectImage]_vars

\* ---------------------------------------------------- the presenter alone

\* an image without a source
ImgNoSrc == Img(Undefined, Str(<<"c">>))

\* an entry whose first image has no source
E8 == Entry(Num(8), TitoloB, Undefined, Num(50000), Affitto, Milano, Villa, Date1, <<ImgNoSrc, ImgA>>)

\* an entry without a title whose image has no alt text
E9 == Entry(Num(9), Undefined, Undefined, Num(0), Vendita, Roma, Attico, Date2, <<ImgC>>)

\* the entries of the views that are presented
ViewEntries == Catalog \cup {E8, E9}

InitPresent ==
  /\ PageAside
  /\ immobiliIn \in SeqsUpTo(ViewEntries, MaxLen)
  /\ formIn = EmptyForm
  /\ ordineIn = "recente"
  /\ idIn = Undefined
  /\ qFiltered = NoCall
  /\ qSorted = NoCall
  /\ qFound = NoFind
  /\ calls = <<>>
  /\ contact = StaticContact
  /\ qpc = "input"

\* renderGrid(immobiliIn)
CallRenderGrid ==
  /\ qpc = "input"
  /\ listDom' = RenderGrid(immobiliIn)
  /\ qpc' = "presented"
  /\ UNCHANGED <<page, queryId, pc, fetchCount, pMain, pListing, cbMain, cbListing, head,
                 meta, chrome, homeDom, detailDom, allImmobili, form, options, listeners,
                 filteredArr, sortedArr>>
  /\ UNCHANGED <<contact, immobiliIn, formIn, ordineIn, idIn, qFiltered, qSorted, qFound, calls>>

SpecPresent == InitPresent /\ [][CallRenderGrid]_vars

Alba == Str(<<"a", "l", "b", "a">>)

E10 == Entry(Num(10), TitoloA, Undefined, Num(1), Vendita, Alba, Villa, Date1, <<>>)

E11 == Entry(Num(11), TitoloB, Undefined, Num(1), Affitto, Undefined, Attico, Date1, <<>>)

\* the entries the options are derived from
FacetEntries == {E1, E2, E4, E5, E10, E11}

\* the selections the two selects hold when they are filled
SelectionForms ==
  {Form(Str(<<>>), <<>>, <<>>, localita, tipoImmobile, "recente") :
     localita \in {Str(<<>>), Roma, Alba}, tipoImmobile \in {Str(<<>>), Villa}}

InitPopulate ==
  /\ PageAside
  /\ immobiliIn \in SeqsUpTo(FacetEntries, MaxLen)
  /\ formIn \in SelectionForms
  /\ ordineIn = "recente"
  /\ idIn = Undefined
  /\ qFiltered = NoCall
  /\ qSorted = NoCall
  /\ qFound = NoFind
  /\ calls = <<>>
  /\ contact = StaticContact
  /\ qpc = "input"

\* populateFilterOptions(immobiliIn) with the selects holding formIn
CallPopulateFilterOptions ==
  /\ qpc = "input"
  /\ \E populated \in {PopulateFilterOptions(immobiliIn, formIn)} :
       /\ options' = populated.options
       /\ form' = populated.form
  /\ qpc' = "populated"
  /\ UNCHANGED <<page, queryId, pc, fetchCount, pMain, pListing, cbMain, cbListing, head,
                 meta, chrome, homeDom, detailDom, allImmobili, listeners, listDom,
                 filteredArr, sortedArr>>
  /\ UNCHANGED <<contact, immobiliIn, formIn, ordineIn, idIn, qFiltered, qSorted, qFound, calls>>

SpecPopulate == InitPopulate /\ [][CallPopulateFilterOptions]_vars

\* ------------------------------------------------- the contact form alone

LongText(n) == [i \in 1..n |-> "a"]

\* the texts a user leaves in each control of the contact form
ContactTexts ==
  [nome |-> {<<>>, <<" ">>, <<"A">>, <<"A", "l">>, LongText(NomeMaxLength + 1)},
   email |-> {<<>>, <<"a", "@", "b", ".", "c">>, <<"a", " ", "@", "b">>},
   telefono |-> {<<>>, <<"+", "3", "9", " ", "3", "3", "3", "1">>,
                 <<"1", "2", "3", "4", "5", "6", "7">>,
                 <<"1", "2", "3", "4", "a", "b", "c", "d">>},
   messaggio |-> {<<>>, LongText(MessaggioMinLength - 1), LongText(MessaggioMinLength)}]

TextFields == {"nome", "email", "telefono", "messaggio"}

InitContact ==
  /\ PageAside
  /\ QueryIdle

\* the user types in a text control: the input event
EditField ==
  /\ contact.formWrap # "none"
  /\ \E name \in TextFields :
       \E value \in ContactTexts[name] :
         /\ contact.values[name] # value
         /\ contact' = HandleInput([contact EXCEPT !.values[name] = value], name)
  /\ UNCHANGED <<immobiliIn, formIn, ordineIn, idIn, qFiltered, qSorted, qFound, calls, qpc>>
  /\ UNCHANGED pageVars

\* the user clicks the consent checkbox: its input and its change event
ToggleGdpr ==
  /\ contact.formWrap # "none"
  /\ contact' = HandleInput(HandleInput([contact EXCEPT !.values.gdpr = ~contact.values.gdpr],
                                        "gdpr"), "gdpr")
  /\ UNCHANGED <<immobiliIn, formIn, ordineIn, idIn, qFiltered, qSorted, qFound, calls, qpc>>
  /\ UNCHANGED pageVars

\* the change event of a text control
ChangeField ==
  /\ contact.formWrap # "none"
  /\ \E name \in TextFields : contact' = HandleInput(contact, name)
  /\ UNCHANGED <<immobiliIn, formIn, ordineIn, idIn, qFiltered, qSorted, qFound, calls, qpc>>
  /\ UNCHANGED pageVars

\* a control loses the focus: the blur event, captured on the form
BlurField ==
  /\ contact.formWrap # "none"
  /\ \E name \in Fields : contact' = HandleBlur(contact, name)
  /\ UNCHANGED <<immobiliIn, formIn, ordineIn, idIn, qFiltered, qSorted, qFound, calls, qpc>>
  /\ UNCHANGED pageVars

\* the form is submitted
Submit ==
  /\ contact.formWrap # "none"
  /\ contact' = HandleSubmit(contact)
  /\ UNCHANGED <<immobiliIn, formIn, ordineIn, idIn, qFiltered, qSorted, qFound, calls, qpc>>
  /\ UNCHANGED pageVars

SpecContact ==
  InitContact /\ [][EditField \/ ToggleGdpr \/ ChangeField \/ BlurField \/ Submit]_vars

\* ---------------------------------------------------- the header alone

\* what the user does to the header, and initHeaderMobile run once more
MenuEvents == {"init", "hamburger", "link", "escape"}

InitMenu ==
  /\ PageAside
  /\ QueryIdle

\* one event on the header; a click on the button needs the button, and the
\* listeners of the links and of the keyboard exist once they were bound
MenuEvent ==
  /\ Len(calls) < MaxEvents
  /\ \E event \in MenuEvents :
       /\ event = "hamburger" => chrome.hamburgers > 0
       /\ event \in {"link", "escape"} => chrome.handlers > 0
       /\ chrome' = CASE event = "init" -> InitHeaderMobile(chrome)
                      [] event = "hamburger" -> HamburgerClick(chrome)
                      [] event = "link" -> NavLinkClick(chrome)
                      [] OTHER -> EscapeKeydown(chrome)
       /\ calls' = Append(calls, event)
  /\ UNCHANGED <<page, queryId, pc, fetchCount, pMain, pListing, cbMain, cbListing, head,
                 meta, homeDom, detailDom, allImmobili, form, options, listeners, listDom,
                 filteredArr, sortedArr>>
  /\ UNCHANGED <<contact, immobiliIn, formIn, ordineIn, idIn, qFiltered, qSorted, qFound, qpc>>

SpecMenu == InitMenu /\ [][MenuEvent]_vars

\* ---------------------------------------------------------------- claims

\* whether the network outcome is a successful response carrying an array
SuccessfulArray(outcome) ==
  outcome.kind = "response" /\ outcome.ok /\ outcome.parses /\ outcome.isArray

\* C1: fetchImmobili always resolves and never rejects: a settled load is
\* fulfilled, with the payload's elements when the response succeeded and
\* carried an array, and with the empty sequence in every other case
\* (transport failure, status not ok, body that does not parse, no array).
C1_LoadAlwaysResolves ==
  \A p \in {pMain, pListing} :
    p.st \notin {"none", "pending"} =>
      /\ p.st = "fulfilled"
      /\ p.val = IF SuccessfulArray(p.outcome) THEN p.outcome.items ELSE <<>>

\* a response with a failing status that carried data resolved to nothing
C1_Witness ==
  /\ pMain.st = "fulfilled"
  /\ pMain.outcome = HttpError
  /\ pMain.val = <<>>
  /\ pMain.outcome.items # <<>>

\* C2: at most one fetch is issued on any page, and once both scripts have
\* started no step (no callback of the load, no listener of the form, hence
\* no applyFiltersAndRender) issues another.
C2_SingleLoad ==
  /\ [](fetchCount <= 1)
  /\ [][pc = "ready" => fetchCount' = fetchCount]_vars

\* the listing has rendered on a user's change of the form, after one fetch
C2_Witness ==
  /\ page = "listing"
  /\ listeners
  /\ form.contratto = Affitto
  /\ form.ordine = "prezzo-crescente"
  /\ Len(sortedArr) > 0
  /\ fetchCount = 1

\* the price the filter compares: the entry's price when it is a number, else 0
NormalizedPrice(item) == IF item.prezzo.k = "number" THEN item.prezzo.n ELSE 0

\* the criteria as the claim states them, on the values read from the form:
\* an empty text or a bound that is no number imposes nothing
Satisfies(item, criteria) ==
  /\ criteria.contratto = Str(<<>>) \/ item.tipologia = criteria.contratto
  /\ criteria.prezzoMin.k = "number" => NormalizedPrice(item) >= criteria.prezzoMin.n
  /\ criteria.prezzoMax.k = "number" => NormalizedPrice(item) <= criteria.prezzoMax.n
  /\ criteria.localita = Str(<<>>) \/ item.citta = criteria.localita
  /\ criteria.tipoImmobile = Str(<<>>) \/ item.tipoImmobile = criteria.tipoImmobile

\* C3: the filter returns exactly the entries that satisfy every active
\* criterion (contract, price floor, price ceiling, city, category), in the
\* order of the snapshot.
C3_FilterIsConjunction ==
  qpc = "filtered" =>
    qFiltered.ret =
      SelectSeq(immobiliIn,
                LAMBDA item : Satisfies(item, GetFiltersFromForm(TRUE, formIn)))

\* scenario A: the contract criterion alone keeps the rent entry
C3_Witness ==
  /\ qpc = "filtered"
  /\ immobiliIn = <<E1, E2>>
  /\ formIn = [EmptyForm EXCEPT !.contratto = Affitto]
  /\ qFiltered.ret = <<E2>>

\* a bound's text that holds no number: not blank, and no digit after the
\* white space and the optional sign
Unparseable(text) ==
  LET t == Trim(text)
      u == IF t # <<>> /\ Head(t) \in {"-", "+"} THEN Tail(t) ELSE t
  IN t # <<>> /\ (u = <<>> \/ ~IsDigit(Head(u)))

FilterOfForm(immobili, formNow) ==
  FilterImmobili(immobili, GetFiltersFromForm(TRUE, formNow)).ret

\* C4: a price bound whose text does not parse as a number is treated as
\* absent: the filter gives what it gives with that bound left empty.
C4_UnparseableBoundIsAbsent ==
  qpc = "filtered" =>
    /\ Unparseable(formIn.prezzoMin) =>
         qFiltered.ret = FilterOfForm(immobiliIn, [formIn EXCEPT !.prezzoMin = <<>>])
    /\ Unparseable(formIn.prezzoMax) =>
         qFiltered.ret = FilterOfForm(immobiliIn, [formIn EXCEPT !.prezzoMax = <<>>])

\* an unparseable ceiling beside a parsed floor: the floor alone decides
C4_Witness ==
  /\ qpc = "filtered"
  /\ immobiliIn = <<E1, E2>>
  /\ formIn = [EmptyForm EXCEPT !.prezzoMax = <<"a", "b", "c">>,
                                !.prezzoMin = <<"6", "0", "0", "0", "0">>]
  /\ qFiltered.ret = <<E1>>

\* the criteria other than the two price bounds
SatisfiesOthers(item, criteria) ==
  /\ criteria.contratto = Str(<<>>) \/ item.tipologia = criteria.contratto
  /\ criteria.localita = Str(<<>>) \/ item.citta = criteria.localita
  /\ criteria.tipoImmobile = Str(<<>>) \/ item.tipoImmobile = criteria.tipoImmobile

Kept(item) == \E j \in 1..Len(qFiltered.ret) : qFiltered.ret[j] = item

\* C5 as stated: an entry whose price is no number is never excluded by the
\* price bounds.
C5_Original ==
  qpc = "filtered" =>
    \A i \in 1..Len(immobiliIn) :
      (immobiliIn[i].prezzo.k # "number"
         /\ SatisfiesOthers(immobiliIn[i], GetFiltersFromForm(TRUE, formIn)))
        => Kept(immobiliIn[i])

\* C5 amended: an entry whose price is no number is filtered as if its price
\* were 0: the bounds exclude it exactly when the floor is a number above 0 or
\* the ceiling a number below 0.
C5_NonNumericPriceCountsAsZero ==
  qpc = "filtered" =>
    LET criteria == GetFiltersFromForm(TRUE, formIn)
    IN \A i \in 1..Len(immobiliIn) :
         (immobiliIn[i].prezzo.k # "number" /\ SatisfiesOthers(immobiliIn[i], criteria))
           => (Kept(immobiliIn[i]) <=>
                 /\ ~(criteria.prezzoMin.k = "number" /\ criteria.prezzoMin.n > 0)
                 /\ ~(criteria.prezzoMax.k = "number" /\ criteria.prezzoMax.n < 0))

\* an entry without a price is dropped by a floor of 60000, and an entry
\* with a text price is kept by a ceiling of 0
C5_Witness ==
  /\ qpc = "filtered"
  /\ \/ /\ immobiliIn = <<E4>>
        /\ formIn = [EmptyForm EXCEPT !.prezzoMin = <<"6", "0", "0", "0", "0">>]
        /\ qFiltered.ret = <<>>
     \/ /\ immobiliIn = <<E3, E1>>
        /\ formIn = [EmptyForm EXCEPT !.prezzoMax = <<" ", "0", " ">>]
        /\ qFiltered.ret = <<E3>>

\* C6: the snapshot is immutable after the load: whatever the callbacks and
\* the listeners have filtered, sorted, derived and rendered, the cached
\* snapshot is still the sequence the load resolved to; the filtered array is
\* still what the filter gives for the snapshot and the form (so the sort has
\* not written into it, and filtering again gives the same), and the sorted
\* array holds the same entries.
C6_SnapshotImmutable ==
  /\ cbListing # "idle" => allImmobili = pListing.val
  /\ listeners =>
       /\ filteredArr = FilterOfForm(allImmobili, form)
       /\ Len(sortedArr) = Len(filteredArr)
       /\ \A i \in 1..Len(filteredArr) :
            Cardinality({j \in 1..Len(sortedArr) : sortedArr[j] = filteredArr[i]})
              = Cardinality({j \in 1..Len(filteredArr) : filteredArr[j] = filteredArr[i]})

\* a price sort has put the entries in another order than the snapshot's,
\* which is as loaded
C6_Witness ==
  /\ listeners
  /\ form.ordine = "prezzo-crescente"
  /\ pListing.val = <<E1, E2>>
  /\ allImmobili = <<E1, E2>>
  /\ filteredArr = <<E1, E2>>
  /\ sortedArr = <<E2, E1>>

\* the value the claims sort by: the normalized price in the price modes, the
\* insertion date (absent as the empty text) in the recency mode
SortKey(ordine, item) ==
  IF ordine = "recente" THEN Or(item.dataInserimento, Str(<<>>))
  ELSE Num(NormalizedPrice(item))

\* C7 as stated: the output of the sort is a permutation of the input that
\* keeps the input order of any two entries with equal sort-relevant values.
C7_Original ==
  qpc = "sorted" =>
    /\ Len(qSorted.ret) = Len(immobiliIn)
    /\ \E p \in [1..Len(immobiliIn) -> 1..Len(immobiliIn)] :
         /\ \A i \in 1..Len(immobiliIn) : qSorted.ret[i] = immobiliIn[p[i]]
         /\ \A i, j \in 1..Len(immobiliIn) : i # j => p[i] # p[j]
         /\ \A i, j \in 1..Len(immobiliIn) :
              (i < j /\ SortKey(ordineIn, immobiliIn[p[i]]) = SortKey(ordineIn, immobiliIn[p[j]]))
                => p[i] < p[j]

\* C8 as stated: a price sort orders the entries by the normalized price
\* (the price when it is a number, else 0), ascending or descending.
C8_Original ==
  qpc = "sorted" =>
    \A i, j \in 1..Len(qSorted.ret) :
      i < j =>
        /\ ordineIn = "prezzo-crescente" =>
             NormalizedPrice(qSorted.ret[i]) <= NormalizedPrice(qSorted.ret[j])
        /\ ordineIn = "prezzo-decrescente" =>
             NormalizedPrice(qSorted.ret[i]) >= NormalizedPrice(qSorted.ret[j])

\* the positions of the entries whose id has the string form of the request
Matches(immobili, id) ==
  {i \in 1..Len(immobili) : immobili[i].obj /\ String(immobili[i].id) = String(id)}

\* C9 as stated: the resolve returns the first entry whose id has the string
\* form of the requested identifier, and not-found only when there is none.
C9_Original ==
  qpc = "found" =>
    LET M == Matches(immobiliIn, idIn)
    IN IF M = {} THEN qFound.ret = <<>>
       ELSE qFound.ret = <<immobiliIn[CHOOSE i \in M : \A j \in M : i <= j]>>

\* a detail page that was asked for an id, has loaded its snapshot, found no
\* entry of that id in it and has finished its callbacks
UnmatchedDetail ==
  /\ page = "detail"
  /\ Truthy(GetQueryParam(queryId))
  /\ pMain.st = "fulfilled"
  /\ Matches(pMain.val, GetQueryParam(queryId)) = {}
  /\ cbMain = "done"

NotFoundView ==
  /\ detailDom.wrap = "none"
  /\ detailDom.fallback = "block"
  /\ detailDom.shown = <<>>

\* C10 as stated: on a detail page whose id matches no entry the page ends in
\* the not-found view, the head holds no structured-data block, the title and
\* the description are not updated and no gallery is set up.
C10_Original ==
  UnmatchedDetail =>
    /\ NotFoundView
    /\ head = <<>>
    /\ meta = StaticMeta
    /\ detailDom.gallery = NoGallery

\* C10 amended: on a detail page whose id matches no entry the page ends in
\* the not-found view, the head holds no block of the listing (the block of
\* the agency, which boot injects on every page, is the only one), the title
\* and the description are not updated and no gallery is set up.
C10_UnmatchedIdShowsNotFound ==
  UnmatchedDetail =>
    /\ NotFoundView
    /\ ~HasBlock(head, JSONLD_OFFER_ID)
    /\ \A i \in 1..Len(head) : head[i].id = JSONLD_AGENT_ID
    /\ meta = StaticMeta
    /\ detailDom.gallery = NoGallery

\* id 99 asked of a snapshot of two entries: not found, the agency in the head
C10_Witness ==
  /\ UnmatchedDetail
  /\ queryId = <<<<"9", "9">>>>
  /\ pMain.val = <<E1, E2>>
  /\ NotFoundView
  /\ HasBlock(head, JSONLD_AGENT_ID)

\* a detail page whose query string has no id, or an empty one, after boot
AbsentIdDetail ==
  /\ page = "detail"
  /\ queryId \in {<<>>, <<<<>>>>}
  /\ pc # "loading"

\* C11: on a detail page without an id (absent or empty) the page is in the
\* not-found view from boot on: no fetch is ever issued, no promise exists,
\* no callback has run, so nothing was resolved, no metadata was written and
\* no detail was rendered.
C11_AbsentIdGoesToNotFound ==
  AbsentIdDetail =>
    /\ NotFoundView
    /\ fetchCount = 0
    /\ pMain = NoPromise
    /\ cbMain = "idle"
    /\ meta = StaticMeta
    /\ ~HasBlock(head, JSONLD_OFFER_ID)
    /\ detailDom.gallery = NoGallery

\* the page of an empty id parameter, both scripts started
C11_Witness ==
  /\ AbsentIdDetail
  /\ queryId = <<<<>>>>
  /\ pc = "ready"
  /\ NotFoundView
  /\ fetchCount = 0

\* how many blocks of the head carry the marker id
CountBlocks(blocks, id) == Cardinality({i \in 1..Len(blocks) : blocks[i].id = id})

Called(name) == \E i \in 1..Len(calls) : calls[i] = name

\* C12: after any number of offer and agency injections for one entry, in
\* any order, the head holds exactly one block of each marker that was
\* injected and nothing else, and each block is the one a single injection
\* into an empty head produces.
C12_InjectionIsIdempotent ==
  qpc = "injected" =>
    /\ \A i \in 1..Len(head) : head[i].id \in {JSONLD_OFFER_ID, JSONLD_AGENT_ID}
    /\ CountBlocks(head, JSONLD_OFFER_ID) = (IF Called("offer") THEN 1 ELSE 0)
    /\ CountBlocks(head, JSONLD_AGENT_ID) = (IF Called("agent") THEN 1 ELSE 0)
    /\ \A i \in 1..Len(head) :
         /\ head[i].id = JSONLD_OFFER_ID =>
              head[i] = InjectJsonLdOffer(<<>>, immobiliIn[1])[1]
         /\ head[i].id = JSONLD_AGENT_ID =>
              head[i] = InjectRealEstateAgentSchema(<<>>)[1]

\* both injections made twice, alternating: two blocks in the head
C12_Witness ==
  /\ qpc = "injected"
  /\ calls = <<"offer", "agent", "offer", "agent">>
  /\ Len(head) = 2
  /\ immobiliIn = <<E1>>

\* the index the gallery shows after the selections made: the last one that
\* was within the n images, or 0
ActiveIndex(selections, n) ==
  LET inBounds == {i \in 1..Len(selections) : selections[i] >= 0 /\ selections[i] < n}
  IN IF inBounds = {} THEN 0
     ELSE selections[CHOOSE i \in inBounds : \A j \in inBounds : j <= i]

\* C13: the gallery shows the first image at the start and, after any
\* selections, the source and the alt text of the image of the last index
\* selected within the bounds; a selection outside the bounds changes nothing.
C13_GalleryShowsLastSelected ==
  qpc = "gallery" =>
    LET immagini == immobiliIn[1].immagini
        im == immagini[ActiveIndex(calls, Len(immagini)) + 1]
    IN /\ detailDom.gallery.set
       /\ detailDom.gallery.src = im.src.s
       /\ detailDom.gallery.alt = (IF im.alt.k = "string" THEN im.alt.s ELSE <<>>)
       /\ detailDom.gallery.thumbs = (IF Len(immagini) > 1 THEN Len(immagini) ELSE 0)

\* of three images the third is selected, then an index beyond them: the
\* third stays
C13_Witness ==
  /\ qpc = "gallery"
  /\ immobiliIn = <<E7>>
  /\ calls = <<1, 2, 3>>
  /\ detailDom.gallery.src = <<"c">>
  /\ detailDom.gallery.alt = <<>>

\* the two states of the listing: the grid shown with its cards and the
\* fallback hidden, or the fallback shown and the grid hidden and empty
GridShown == listDom.grid = "" /\ listDom.fallback = "none" /\ listDom.cards # <<>>

FallbackShown == listDom.grid = "none" /\ listDom.fallback = "block" /\ listDom.cards = <<>>

\* C14: after renderGrid(view) the page shows the grid with one card per
\* entry and hides the fallback iff the view is not empty, shows the fallback
\* with the grid hidden and emptied iff it is empty, and the count message is
\* the no-results wording for 0, the singular for 1 and the plural with N
\* for N > 1.
C14_PresenterShowsGridOrFallback ==
  qpc = "presented" =>
    LET n == Len(immobiliIn)
    IN /\ GridShown <=> n > 0
       /\ FallbackShown <=> n = 0
       /\ Len(listDom.cards) = n
       /\ listDom.resultCount.count = n
       /\ listDom.resultCount.text =
            (IF n = 0 THEN "Nessun immobile trovato. Prova a modificare i filtri."
             ELSE IF n = 1 THEN "1 immobile trovato"
             ELSE "immobili trovati")

\* a view of three entries: the grid with three cards and the plural count
C14_Witness ==
  /\ qpc = "presented"
  /\ immobiliIn = <<E1, E2, E4>>
  /\ GridShown
  /\ listDom.resultCount = [count |-> 3, text |-> "immobili trovati"]

\* the views a page ends in: the cards or the fallback on the home page and
\* on the listing, the entry or the not-found view on the detail page
VisibleState ==
  CASE page = "home" ->
         /\ cbMain = "done"
         /\ \/ homeDom.grid = "" /\ homeDom.fallback = "none" /\ homeDom.cards # <<>>
            \/ homeDom.grid = "none" /\ homeDom.fallback = "block"
    [] page = "listing" ->
         /\ cbListing = "done"
         /\ GridShown \/ FallbackShown
    [] OTHER ->
         \/ NotFoundView
         \/ /\ cbMain = "done"
            /\ detailDom.wrap = ""
            /\ detailDom.fallback = "none"
            /\ detailDom.shown # <<>>

\* C15 as stated: every page eventually reaches a visible state, whether the
\* load succeeds, fails or never gets its response.
C15_Original == <>VisibleState

\* the views sort(filter(snapshot, criteria of the form), sort key of the form)
\* can be rendered as
ViewsOfForm(snapshot, formNow) ==
  {RenderGrid(sorted.ret) :
     sorted \in SortImmobili(FilterOfForm(snapshot, formNow),
                             GetFiltersFromForm(TRUE, formNow).ordine)}

\* C16: on the listing page, once the load's callback has run and the
\* listeners are attached, in every state (so after the load and after every
\* handled event) the snapshot is the loaded one and the rendered view is
\* sort(filter(snapshot, criteria of the form as it is), sort key of the form
\* as it is); and as long as the load's callback has not finished nothing is
\* rendered, whatever the user did to the form.
C16_ViewFollowsFormAndSnapshot ==
  page = "listing" =>
    /\ cbListing # "done" => listDom = StaticListing /\ ~listeners
    /\ listeners =>
         /\ cbListing = "done"
         /\ allImmobili = pListing.val
         /\ listDom \in ViewsOfForm(allImmobili, form)

\* the user has narrowed a loaded list of two entries down to one and chosen
\* a price order
C16_Witness ==
  /\ page = "listing"
  /\ listeners
  /\ Len(allImmobili) = 2
  /\ form.contratto = Affitto
  /\ form.prezzoMax = <<"6", "0", "0", "0", "0">>
  /\ form.ordine = "prezzo-crescente"
  /\ Len(listDom.cards) = 1

\* alphabetical order of two texts: letter by letter, whatever the case
AlphabeticalCompare(x, y) ==
  TextCompare([i \in 1..Len(x) |-> FoldCase(x[i])], [i \in 1..Len(y) |-> FoldCase(y[i])])

\* the values of one field that occur in the snapshot and are not empty
FacetValues(immobili, field) ==
  {immobili[i][field] : i \in {j \in 1..Len(immobili) : Truthy(immobili[j][field])}}

\* the derived list holds exactly the values, each once
ExactlyOnce(list, values) ==
  /\ {list[i] : i \in 1..Len(list)} = values
  /\ \A i, j \in 1..Len(list) : list[i] = list[j] => i = j

\* C17 as stated: the derived cities and categories are exactly the distinct
\* non-empty values of the snapshot, each once, in ascending alphabetical
\* order.
C17_Original ==
  qpc = "populated" =>
    /\ ExactlyOnce(options.localita, FacetValues(immobiliIn, "citta"))
    /\ ExactlyOnce(options.tipoImmobile, FacetValues(immobiliIn, "tipoImmobile"))
    /\ \A list \in {options.localita, options.tipoImmobile} :
         \A i, j \in 1..Len(list) :
           i < j => AlphabeticalCompare(String(list[i]), String(list[j])) <= 0

\* whether a select's list of options carries the value
AmongOptions(value, list) == \E i \in 1..Len(list) : list[i] = value

\* the filter's verdict on the entries does not depend on their value of the
\* field
NoConstraintOn(field, immobili, formNow) ==
  \A i \in 1..Len(immobili) :
    \A v \in {Undefined, Milano, Roma, Alba, Villa, Attico} :
      FilterAccepts([immobili[i] EXCEPT ![field] = v], GetFiltersFromForm(TRUE, formNow))
        = FilterAccepts(immobili[i], GetFiltersFromForm(TRUE, formNow))

\* the selects filled from the data, and the field of the entries behind each
FacetControls == {<<"localita", "citta">>, <<"tipoImmobile", "tipoImmobile">>}

\* C18: after the two selects were refilled from the data, a select holds the
\* value it held before when that value is among its new options; otherwise
\* its value is '' and the filter read from the form puts no constraint on
\* that field.
C18_ReselectionKeepsOrClears ==
  qpc = "populated" =>
    \A control \in FacetControls :
      IF AmongOptions(formIn[control[1]], options[control[1]])
      THEN form[control[1]] = formIn[control[1]]
      ELSE /\ form[control[1]] = Str(<<>>)
           /\ NoConstraintOn(control[2], immobiliIn, form)

\* the city that was selected is gone and is cleared, the category that was
\* selected is still offered and is kept
C18_Witness ==
  /\ qpc = "populated"
  /\ immobiliIn = <<E10, E4>>
  /\ formIn.localita = Roma
  /\ formIn.tipoImmobile = Villa
  /\ form.localita = Str(<<>>)
  /\ form.tipoImmobile = Villa

\* whether the entry has a first image with a source
HasPrimaryImage(immobile) ==
  immobile.immagini # <<>> /\ Truthy(immobile.immagini[1].src)

\* the title as alt text: the empty text when there is none
TitleAsAlt(immobile) ==
  IF immobile.titolo.k \in {"undefined", "null"} THEN <<>> ELSE EscapeText(String(immobile.titolo))

\* C19: the image of a card is the placeholder, with the title as alt text or
\* the label 'Immobile' when there is no title, for an entry without images
\* or whose first image has no source; otherwise it is the first image's
\* source with that image's alt text, or the title when the image has none.
C19_PrimaryImageOrPlaceholder ==
  qpc = "presented" =>
    \A i \in 1..Len(immobiliIn) :
      LET immobile == immobiliIn[i]
          card == listDom.cards[i]
      IN IF HasPrimaryImage(immobile)
         THEN /\ card.src = EscapeText(immobile.immagini[1].src.s)
              /\ card.alt = IF Truthy(immobile.immagini[1].alt)
                            THEN EscapeText(immobile.immagini[1].alt.s)
                            ELSE TitleAsAlt(immobile)
         ELSE /\ card.src = String(Placeholder)
              /\ card.alt = IF Truthy(immobile.titolo) THEN TitleAsAlt(immobile)
                            ELSE String(Immobile)

\* three cards: a first image without source, an image without alt text on
\* an entry without title, and no image and no title
C19_Witness ==
  /\ qpc = "presented"
  /\ immobiliIn = <<E8, E9, E4>>
  /\ listDom.cards[1].src = String(Placeholder)
  /\ listDom.cards[1].alt = <<"b">>
  /\ listDom.cards[2].src = <<"c">>
  /\ listDom.cards[3].alt = String(Immobile)

\* the text the recency order reads: the date, or '' when there is none
DateText(immobile) == Or(immobile.dataInserimento, Str(<<>>)).s

\* C20 as stated: with the default sort key the output is in non-increasing
\* raw-text order of the dates, an entry without a date counting as '' and so
\* standing after every entry that has one.
C20_Original ==
  (qpc = "sorted" /\ ordineIn = "recente") =>
    \A i, j \in 1..Len(qSorted.ret) :
      i < j => TextCompare(DateText(qSorted.ret[i]), DateText(qSorted.ret[j])) >= 0

\* the validation rules, on the values as validation reads them: a name of
\* NomeMinLength to NomeMaxLength characters, a well-formed email, a phone
\* that is empty or well formed, a message of MessaggioMinLength to
\* MessaggioMaxLength characters, the consent given
FieldIsValid(values, name) ==
  CASE name = "nome" ->
         Len(Trim(values.nome)) >= NomeMinLength /\ Len(Trim(values.nome)) <= NomeMaxLength
    [] name = "email" -> IsValidEmail(Trim(values.email))
    [] name = "telefono" ->
         Trim(values.telefono) = <<>> \/ TelefonoPattern(Trim(values.telefono))
    [] name = "messaggio" ->
         /\ Len(Trim(values.messaggio)) >= MessaggioMinLength
         /\ Len(Trim(values.messaggio)) <= MessaggioMaxLength
    [] OTHER -> values.gdpr

InvalidFields(values) == {name \in Fields : ~FieldIsValid(values, name)}

\* the fields that display an error
ShownFields(c) == {name \in Fields : c.shown[name] # NoError}

\* the first of a set of fields in the order nome, email, telefono, messaggio,
\* gdpr
FirstInOrder(names) ==
  FieldNames[CHOOSE i \in 1..Len(FieldNames) :
               FieldNames[i] \in names /\ \A j \in 1..(i - 1) : FieldNames[j] \notin names]

\* C21: a submit shows the confirmation and hides the form iff every field
\* is valid (name, email and message valid, phone empty or well formed,
\* consent given); otherwise the confirmation is not shown, the fields that
\* display an error after the submit are exactly the invalid ones, the focus
\* is on the first invalid field of the order, and the announced count is the
\* number of invalid fields.
C21_SubmitShowsSuccessOrErrors ==
  [][Submit =>
       IF InvalidFields(contact.values) = {}
       THEN contact'.success = "block" /\ contact'.formWrap = "none"
       ELSE /\ contact'.success # "block"
            /\ contact'.formWrap # "none"
            /\ ShownFields(contact') = InvalidFields(contact.values)
            /\ contact'.focus = FirstInOrder(InvalidFields(contact.values))
            /\ contact'.live.count = Cardinality(InvalidFields(contact.values))]_vars

\* a submit with an invalid email, an invalid phone and no consent was
\* answered with three errors and the focus on the email
C21_Witness ==
  /\ InvalidFields(contact.values) = {"email", "telefono", "gdpr"}
  /\ ShownFields(contact) = {"email", "telefono", "gdpr"}
  /\ contact.focus = "email"
  /\ contact.live = AnnounceText(3)
  /\ contact.success = "static"

\* whether the menu is open after the events: a click on the button toggles,
\* a click on a link or the Escape key closes, initialization changes nothing
RECURSIVE MenuOpenAfter(_)
MenuOpenAfter(events) ==
  IF events = <<>> THEN FALSE
  ELSE LET last == events[Len(events)]
           before == MenuOpenAfter(SubSeq(events, 1, Len(events) - 1))
       IN IF last = "hamburger" THEN ~before
          ELSE IF last \in {"link", "escape"} THEN FALSE
          ELSE before

\* C22: after any sequence of initializations, clicks on the button, clicks
\* on a nav link and Escape presses, the header carries nav-open exactly when
\* the clicks on the button since the last closing are odd in number, the
\* button's aria-expanded is 'true' and its label 'Chiudi menu' exactly when
\* the header carries nav-open, and the header holds at most one button.
C22_MenuStateIsConsistent ==
  /\ chrome.hamburgers <= 1
  /\ chrome.navOpen = MenuOpenAfter(calls)
  /\ chrome.hamburgers > 0 =>
       /\ chrome.ariaExpanded = (IF chrome.navOpen THEN "true" ELSE "false")
       /\ chrome.ariaLabel = (IF chrome.navOpen THEN "Chiudi menu" ELSE "Apri menu")

\* the menu was closed by a link, opened again, and initialization ran once
\* more: the menu is still open and the header holds its one button
C22_Witness ==
  /\ calls = <<"init", "link", "hamburger", "init">>
  /\ chrome.navOpen
  /\ chrome.ariaExpanded = "true"
  /\ chrome.hamburgers = 1

\* the step is an input or a change event on the field: the user changed its
\* value and no other, or the change listener ran on it
InputOrChangeOn(name) ==
  \/ /\ contact'.values[name] # contact.values[name]
     /\ \A other \in Fields \ {name} : contact'.values[other] = contact.values[other]
  \/ contact' = HandleInput(contact, name)

\* the step is a blur on the field: no value changes, and the form is as
\* handleBlur leaves it
BlurOn(name) ==
  /\ contact'.values = contact.values
  /\ contact' = HandleBlur(contact, name)

\* the errors of the other fields are as they were
OthersKeepErrors(name) ==
  \A other \in Fields \ {name} : contact'.shown[other] = contact.shown[other]

\* C23: starting from the form without errors, after every submit, blur,
\* input and change event each field that displays an error has an invalid
\* value; a blur on a field leaves its error displayed iff the field is
\* invalid at that moment; an input or change on a field leaves that field
\* without error and the errors of all other fields as they were.
C23_ShownErrorsAreCurrent ==
  [][\A name \in Fields :
       /\ contact'.shown[name] # NoError => ~FieldIsValid(contact'.values, name)
       /\ BlurOn(name) =>
            /\ contact'.shown[name] # NoError <=> ~FieldIsValid(contact.values, name)
            /\ OthersKeepErrors(name)
       /\ InputOrChangeOn(name) =>
            /\ contact'.shown[name] = NoError
            /\ OthersKeepErrors(name)]_vars

\* a submit announced three errors; since then the phone was corrected and
\* the consent touched twice, so only the email still displays its error
\* while the consent, still missing, displays none
C23_Witness ==
  /\ contact.live = AnnounceText(3)
  /\ ShownFields(contact) = {"email"}
  /\ InvalidFields(contact.values) = {"email", "gdpr"}
  /\ contact.formWrap = "static"

====
